---- MODULE Spec2Model ----
(***************************************************************************)
(* Palmetto engine: the attributed adjacency graph (aag.cpp), the          *)
(* rule-based recognizers (fillet, chamfer, thin wall v2, hole, cavity)    *)
(* and the recognizer ordering of Engine::recognize_features (engine.cpp). *)
(*                                                                         *)
(* Face ids are 0-based as in the code; sequences are 1-based, so the      *)
(* face with id i is element i + 1 of faces_ and face_attrs_.              *)
(*                                                                         *)
(* What the B-rep kernel returns for a face or an edge (surface kind,      *)
(* area, normal, edge curves, the dihedral evaluation) is an input: a      *)
(* shape is a record of such answers.  Lengths and normal components are   *)
(* integers (components in hundredths), angles are whole degrees.          *)
(***************************************************************************)
EXTENDS Integers, Sequences, FiniteSets, TLC

VARIABLES
    aag,          \* the AAG object: faces_, face_attrs_, edges_, edge_index_
    shape,        \* the shape last loaded / built (Engine::shape_)
    features,     \* Engine::features_ (or the list a recognizer returned)
    counters,     \* the static feature_id_counter_ of each recognizer class
    pc,           \* position inside Engine::recognize_features
    modules,      \* the module selection given to recognize_features
    fillet_faces, \* the local set fillet_faces of recognize_features
    log,          \* the "Running ... recognizer" lines written so far in this run
    sessions,     \* number of recognize_features runs so far in this process
    argv,         \* main: the command line after the program name
    argi,         \* main: the index i of the argument loop
    opts,         \* main: the option variables filled by the argument loop
    mainpc,       \* main: the position in main
    exit_code,    \* main: the process's exit status, -1 while it runs
    trace,        \* main: the pipeline steps called so far, with what they returned
    threshold_,   \* ThinWallRecognizerV2::threshold_ of the recognizer last run alone
    grid,         \* SDFGenerator: what the kernel answers for each voxel of the grid
    sdf,          \* SDFGenerator: the SDF object of the running or last call
    max_search_distance, \* SDFGenerator: the search distance (band width) of that call
    threads,      \* SDFGenerator: the locals of each thread of the parallel region
    next_voxel,   \* SDFGenerator: the next iteration the dynamic schedule hands out
    prev_sdf,     \* SDFGenerator: the SDF the call before returned, with its distance
    sdfpc,        \* SDFGenerator: the position in the call
    boundary_region, \* SDFGenerator: the coarse mask of GenerateAdaptiveSDF (one word)
    index_to_face_,  \* AccessibilityAnalyzer: what the kernel answers for each face
    ray_tracer_,     \* AccessibilityAnalyzer: the ray tracer the constructor made
    results,         \* AccessibilityAnalyzer: the map AnalyzeCNCAccessibility returned
    draft_direction, \* AccessibilityAnalyzer: the argument of AnalyzeMoldingAccessibility
    geometry,        \* PocketDepthAnalyzer: boxes, centroids and normals of the faces
    cavity_set,      \* PocketDepthAnalyzer: the face set given to AnalyzeSinglePocket
    pocket,          \* PocketDepthAnalyzer: the PocketDepthResult returned
    edge_face_map_,  \* BlendRecognizer: the faces at each edge, as the kernel lists them
    candidates_,     \* BlendRecognizer: face id -> BlendCandidate
    chains_,         \* BlendRecognizer: the chains built
    next_chain_id_,  \* BlendRecognizer: the id of the next chain
    voxels_to_process, \* SDFGenerator: the fine voxels counted for the second pass
    voxels_processed,  \* SDFGenerator: the fine voxels the second pass has done
    coarse_read      \* SDFGenerator: the index of the last read of the coarse mask

cliVars == <<argv, argi, opts, mainpc, exit_code, trace>>

\* the variables of the command-line program, which the engine's own
\* operations leave alone
thinVars == <<threshold_>>

sdfVars == <<grid, sdf, max_search_distance, threads, next_voxel, prev_sdf, sdfpc,
            boundary_region>>

accVars == <<index_to_face_, ray_tracer_, results, draft_direction>>

pocketVars == <<geometry, cavity_set, pocket>>

blendVars == <<edge_face_map_, candidates_, chains_, next_chain_id_>>

progressVars == <<voxels_to_process, voxels_processed, coarse_read>>

dfmVars == <<accVars, pocketVars, blendVars, progressVars>>

auxVars == <<cliVars, thinVars, sdfVars, dfmVars>>

\* no analyzer has been constructed
IdleDfm ==
    /\ index_to_face_ = <<>>
    /\ ray_tracer_ = "idle"
    /\ results = <<>>
    /\ draft_direction = <<>>
    /\ geometry = <<>>
    /\ cavity_set = {}
    /\ pocket = <<>>
    /\ edge_face_map_ = <<>>
    /\ candidates_ = <<>>
    /\ chains_ = <<>>
    /\ next_chain_id_ = 0
    /\ voxels_to_process = 0
    /\ voxels_processed = 0
    /\ coarse_read = <<>>

\* no SDF has been asked for
IdleSdf ==
    /\ grid = <<>>
    /\ sdf = <<>>
    /\ max_search_distance = 0
    /\ threads = <<>>
    /\ next_voxel = 0
    /\ prev_sdf = <<>>
    /\ sdfpc = "idle"
    /\ boundary_region = {}

vars == <<aag, shape, features, counters, pc, modules, fillet_faces, log, sessions,
          auxVars>>

\* main has not started
IdleAux ==
    /\ argv = <<>>
    /\ argi = 1
    /\ opts = <<>>
    /\ mainpc = "idle"
    /\ exit_code = -1
    /\ trace = <<>>
    /\ threshold_ = 0
    /\ IdleSdf
    /\ IdleDfm

----------------------------------------------------------------------------
(* Small helpers *)

Abs(x) == IF x < 0 THEN -x ELSE x

Range(s) == {s[i] : i \in 1..Len(s)}

Contains(s, x) == \E i \in 1..Len(s) : s[i] = x

\* std::min / std::max over three values
Min3(a, b, c) == IF a <= b /\ a <= c THEN a ELSE IF b <= c THEN b ELSE c
Max3(a, b, c) == IF a >= b /\ a >= c THEN a ELSE IF b >= c THEN b ELSE c

\* the elements of a std::set<int> in iteration (ascending) order
RECURSIVE SetToSeq(_)
SetToSeq(S) ==
    IF S = {} THEN <<>>
    ELSE LET m == CHOOSE x \in S : \A y \in S : x <= y
         IN <<m>> \o SetToSeq(S \ {m})

----------------------------------------------------------------------------
(* FaceAttributes and AAGEdge as constructed (aag.h) *)

ZeroVec == <<0, 0, 0>>

\* gp_Ax1(): the Z axis through the origin
DefaultAxis == [dir |-> "z", off |-> 0, along |-> 0]

DefaultAttrs ==
    [ surface_type       |-> "OTHER",
      area               |-> 0,
      normal             |-> ZeroVec,
      is_cylinder        |-> FALSE,
      cylinder_axis      |-> DefaultAxis,
      cylinder_radius    |-> 0,
      is_torus           |-> FALSE,
      torus_axis         |-> DefaultAxis,
      torus_minor_radius |-> 0,
      torus_major_radius |-> 0,
      is_planar          |-> FALSE,
      plane_location     |-> 0,
      plane_normal       |-> ZeroVec ]

NewAAGEdge ==
    [ face1_id |-> -1, face2_id |-> -1, edge |-> 0, dihedral_angle |-> 0,
      is_convex |-> FALSE, is_concave |-> FALSE, is_smooth |-> FALSE ]

\* AAG::AAG(): every container empty
EmptyAAG == [ faces_ |-> <<>>, face_attrs_ |-> <<>>, edges_ |-> <<>>, edge_index_ |-> <<>> ]

Reversed(v) == <<-v[1], -v[2], -v[3]>>

----------------------------------------------------------------------------
(* AAG::Build *)

\* std::vector::resize: keeps the first n elements, appends default-constructed ones
RECURSIVE Resize(_, _)
Resize(attrs, n) ==
    IF Len(attrs) >= n THEN SubSeq(attrs, 1, n)
    ELSE Resize(Append(attrs, DefaultAttrs), n)

\* BuildFaceIndex: faces_ is cleared and refilled, face_attrs_ is resized
BuildFaceIndex(g, sh) ==
    [g EXCEPT !.faces_ = sh.faces,
              !.face_attrs_ = Resize(g.face_attrs_, Len(sh.faces))]

\* the switch on the surface type, applied to the attributes already stored
SurfaceSwitch(a, f) ==
    CASE f.kind = "Plane" ->
            [a EXCEPT !.surface_type = "PLANE", !.is_planar = TRUE,
                      !.plane_location = f.loc, !.plane_normal = f.pn]
      [] f.kind = "Cylinder" ->
            [a EXCEPT !.surface_type = "CYLINDER", !.is_cylinder = TRUE,
                      !.cylinder_axis = f.axis, !.cylinder_radius = f.radius]
      [] f.kind = "Cone" -> [a EXCEPT !.surface_type = "CONE"]
      [] f.kind = "Sphere" -> [a EXCEPT !.surface_type = "SPHERE"]
      [] f.kind = "Torus" ->
            [a EXCEPT !.surface_type = "TORUS", !.is_torus = TRUE,
                      !.torus_axis = f.axis, !.torus_minor_radius = f.radius,
                      !.torus_major_radius = f.major]
      [] f.kind = "BSplineSurface" -> [a EXCEPT !.surface_type = "BSPLINE"]
      [] OTHER -> [a EXCEPT !.surface_type = "OTHER"]

\* one iteration of the loop of ComputeFaceAttributes
FaceAttrsOf(a, f) ==
    LET b == SurfaceSwitch([a EXCEPT !.area = f.area], f)
    IN IF f.normalOK
       THEN [b EXCEPT !.normal = IF f.orient = "REVERSED" THEN Reversed(f.sn) ELSE f.sn]
       ELSE b

ComputeFaceAttributes(g) ==
    [g EXCEPT !.face_attrs_ =
        [i \in 1..Len(g.faces_) |-> FaceAttrsOf(g.face_attrs_[i], g.faces_[i])]]

\* the loop "if (faces_[j].IsSame(face)) id = j": the last match, -1 when none
FaceIdOf(faces, h) ==
    LET hits == {j \in 1..Len(faces) : faces[j].h = h}
    IN IF hits = {} THEN -1
       ELSE (CHOOSE j \in hits : \A k \in hits : k <= j) - 1

\* ComputeDihedralAngle: the kernel's angle, 0.0 on any failure
ComputeDihedralAngle(be) == IF be.ok THEN be.theta ELSE 0

\* "Classify angle"
ClassifyAngle(e, angle) ==
    IF Abs(angle) > 177 THEN [e EXCEPT !.is_smooth = TRUE]
    ELSE IF angle < 0 THEN [e EXCEPT !.is_convex = TRUE]
    ELSE [e EXCEPT !.is_concave = TRUE]

\* a pass of the loop that indexes the edge under (face1, face2) only
AddEdgeOneWay(g, be) ==
    IF Len(be.faces) # 2 THEN g
    ELSE LET face1_id == FaceIdOf(g.faces_, be.faces[1])
             face2_id == FaceIdOf(g.faces_, be.faces[2])
         IN IF ~(face1_id >= 0 /\ face2_id >= 0) THEN g
            ELSE LET angle == ComputeDihedralAngle(be)
                     e == ClassifyAngle(
                            [NewAAGEdge EXCEPT !.face1_id = face1_id,
                                               !.face2_id = face2_id,
                                               !.edge = be.e,
                                               !.dihedral_angle = angle], angle)
                     edge_idx == Len(g.edges_)
                 IN [g EXCEPT !.edges_ = Append(g.edges_, e),
                              !.edge_index_ =
                                  (<<face1_id, face2_id>> :> edge_idx) @@ g.edge_index_]

\* one pass of the loop over the edge-to-face map
AddEdge(g, be) ==
    IF Len(be.faces) # 2 THEN g
    ELSE LET face1_id == FaceIdOf(g.faces_, be.faces[1])
             face2_id == FaceIdOf(g.faces_, be.faces[2])
         IN IF ~(face1_id >= 0 /\ face2_id >= 0) THEN g
            ELSE LET angle == ComputeDihedralAngle(be)
                     e == ClassifyAngle(
                            [NewAAGEdge EXCEPT !.face1_id = face1_id,
                                               !.face2_id = face2_id,
                                               !.edge = be.e,
                                               !.dihedral_angle = angle], angle)
                     edge_idx == Len(g.edges_)
                 IN [g EXCEPT !.edges_ = Append(g.edges_, e),
                              !.edge_index_ =
                                  (<<face1_id, face2_id>> :> edge_idx) @@
                                  (<<face2_id, face1_id>> :> edge_idx) @@ g.edge_index_]

RECURSIVE AddEdges(_, _, _)
AddEdges(g, bedges, i) ==
    IF i > Len(bedges) THEN g
    ELSE LET g1 == AddEdge(g, bedges[i])
         \* the test is always true: it has TLC evaluate g1 before the next pass
         IN IF Len(g1.edges_) >= 0 THEN AddEdges(g1, bedges, i + 1) ELSE g1

BuildAdjacency(g, sh) ==
    AddEdges([g EXCEPT !.edges_ = <<>>, !.edge_index_ = <<>>], sh.bedges, 1)

\* AAG::Build on the object g
Build(g, sh) == BuildAdjacency(ComputeFaceAttributes(BuildFaceIndex(g, sh)), sh)

----------------------------------------------------------------------------
(* AAG queries *)

GetFaceCount(g) == Len(g.faces_)
GetFace(g, id) == g.faces_[id + 1]
GetFaceAttributes(g, id) == g.face_attrs_[id + 1]

RECURSIVE NeighborsFrom(_, _, _)
NeighborsFrom(g, face_id, i) ==
    IF i > Len(g.edges_) THEN <<>>
    ELSE LET e == g.edges_[i]
             rest == NeighborsFrom(g, face_id, i + 1)
         IN IF e.face1_id = face_id THEN <<e.face2_id>> \o rest
            ELSE IF e.face2_id = face_id THEN <<e.face1_id>> \o rest
            ELSE rest

GetNeighbors(g, face_id) == NeighborsFrom(g, face_id, 1)

\* GetEdge: the index of the edge, or -1 for nullptr
GetEdge(g, face1_id, face2_id) ==
    IF <<face1_id, face2_id>> \in DOMAIN g.edge_index_
    THEN g.edge_index_[<<face1_id, face2_id>>] ELSE -1

GetDihedralAngle(g, face1_id, face2_id) ==
    LET k == GetEdge(g, face1_id, face2_id)
    IN IF k >= 0 THEN g.edges_[k + 1].dihedral_angle ELSE 0

GetCylindricalFaces(g) ==
    SetToSeq({i \in 0..(Len(g.faces_) - 1) : g.face_attrs_[i + 1].is_cylinder})

GetToroidalFaces(g) ==
    SetToSeq({i \in 0..(Len(g.faces_) - 1) : g.face_attrs_[i + 1].is_torus})

----------------------------------------------------------------------------
(* Feature ids: "<prefix><counter>" as the stream or std::to_string writes it *)

Digit == <<"0", "1", "2", "3", "4", "5", "6", "7", "8", "9">>

\* decimal digits of n >= 0, no padding (operator<<(int), std::to_string)
RECURSIVE IntToString(_)
IntToString(n) ==
    IF n < 10 THEN Digit[n + 1]
    ELSE IntToString(n \div 10) \o Digit[(n % 10) + 1]

\* std::setfill('0') << std::setw(w): pad on the left up to width w, never cut
RECURSIVE PadLeft(_, _)
PadLeft(str, w) == IF Len(str) >= w THEN str ELSE PadLeft("0" \o str, w)

SetW4(n) == PadLeft(IntToString(n), 4)

----------------------------------------------------------------------------
(* FilletRecognizer *)

\* is_full: the parameter range is 2*pi
IsFullCircle(c) == c.arc = 360

\* one edge of the loop of HasQuarterCircleEdges
IsQuarterArc(c) == c.type = "Circle" /\ ~IsFullCircle(c) /\ Abs(c.arc - 90) < 5

HasQuarterCircleEdges(g, face_id) ==
    LET attrs == GetFaceAttributes(g, face_id)
        arcs == GetFace(g, face_id).arcs
    IN IF ~attrs.is_cylinder /\ ~attrs.is_torus THEN FALSE
       ELSE Cardinality({k \in 1..Len(arcs) : IsQuarterArc(arcs[k])}) > 0

IsFilletCandidate(g, face_id, max_radius) ==
    LET attrs == GetFaceAttributes(g, face_id)
        radius == IF attrs.is_cylinder THEN attrs.cylinder_radius
                  ELSE attrs.torus_minor_radius
    IN IF ~attrs.is_cylinder /\ ~attrs.is_torus THEN FALSE
       ELSE IF radius > max_radius THEN FALSE
       ELSE HasQuarterCircleEdges(g, face_id)

GetFilletRadius(g, face_id) ==
    LET attrs == GetFaceAttributes(g, face_id)
    IN IF attrs.is_cylinder THEN attrs.cylinder_radius
       ELSE IF attrs.is_torus THEN attrs.torus_minor_radius
       ELSE 0

CreateFillet(g, face_id, radius, counter) ==
    LET attrs == GetFaceAttributes(g, face_id)
    IN [ id |-> "fillet_" \o SetW4(counter),
         type |-> "fillet",
         subtype |-> IF attrs.is_cylinder THEN "blend"
                     ELSE IF attrs.is_torus THEN "curved_blend" ELSE "blend",
         source |-> "fillet_recognizer",
         face_ids |-> <<face_id>>,
         params |-> [radius_mm |-> radius] ]

\* one of the two loops of Recognize; acc = [fs: features so far, c: the counter]
RECURSIVE FilletLoop(_, _, _, _, _)
FilletLoop(g, ids, k, max_radius, acc) ==
    IF k > Len(ids) THEN acc
    ELSE IF IsFilletCandidate(g, ids[k], max_radius)
         THEN FilletLoop(g, ids, k + 1, max_radius,
                  [ fs |-> Append(acc.fs,
                               CreateFillet(g, ids[k], GetFilletRadius(g, ids[k]), acc.c)),
                    c |-> acc.c + 1 ])
         ELSE FilletLoop(g, ids, k + 1, max_radius, acc)

\* FilletRecognizer::Recognize: cylindrical faces first, toroidal faces after
FilletRecognize(g, max_radius, counter) ==
    FilletLoop(g, GetToroidalFaces(g), 1, max_radius,
        FilletLoop(g, GetCylindricalFaces(g), 1, max_radius,
                   [fs |-> <<>>, c |-> counter]))

----------------------------------------------------------------------------
(* HoleRecognizer *)

IsInternal(g, face_id) ==
    LET attrs == GetFaceAttributes(g, face_id)
        face == GetFace(g, face_id)
    IN IF ~attrs.is_cylinder THEN FALSE
       ELSE IF ~face.normalOK THEN FALSE
       ELSE face.inward

IsConcentricArc(c) == c.type = "Circle" /\ c.concentric /\ ~IsFullCircle(c)

IsSemiArc(c) == IsConcentricArc(c) /\ Abs(c.arc - 180) < 5

IsQuarterConcentricArc(c) ==
    IsConcentricArc(c) /\ ~(Abs(c.arc - 180) < 5) /\ Abs(c.arc - 90) < 5

HasConcaveCircularEdges(g, face_id) ==
    LET attrs == GetFaceAttributes(g, face_id)
        arcs == GetFace(g, face_id).arcs
        semicircle_count == Cardinality({k \in 1..Len(arcs) : IsSemiArc(arcs[k])})
        quarter_circle_count ==
            Cardinality({k \in 1..Len(arcs) : IsQuarterConcentricArc(arcs[k])})
    IN IF ~attrs.is_cylinder THEN FALSE
       ELSE semicircle_count > 0 /\ quarter_circle_count = 0

\* directions are parallel, and the locations coincide or lie on one line
AreAxesCoincident(axis1, axis2) ==
    IF axis1.dir # axis2.dir THEN FALSE
    ELSE IF axis1.off = axis2.off /\ axis1.along = axis2.along THEN TRUE
    ELSE Abs(axis1.off - axis2.off) = 0

\* visit_recursive, run over the neighbours nbrs[k..] of one face
RECURSIVE VisitRecursive(_, _, _, _, _, _)
VisitRecursive(g, ref_axis, traversed, nbrs, k, collected) ==
    IF k > Len(nbrs) THEN collected
    ELSE LET neighbor_id == nbrs[k]
             neighbor_attrs == GetFaceAttributes(g, neighbor_id)
         IN IF \/ neighbor_id \in traversed
               \/ Contains(collected, neighbor_id)
               \/ ~neighbor_attrs.is_cylinder
               \/ ~AreAxesCoincident(ref_axis, neighbor_attrs.cylinder_axis)
               \/ ~IsInternal(g, neighbor_id)
            THEN VisitRecursive(g, ref_axis, traversed, nbrs, k + 1, collected)
            ELSE VisitRecursive(g, ref_axis, traversed, nbrs, k + 1,
                     VisitRecursive(g, ref_axis, traversed,
                                    GetNeighbors(g, neighbor_id), 1,
                                    Append(collected, neighbor_id)))

FindCoaxialCylinders(g, seed_face_id, traversed) ==
    VisitRecursive(g, GetFaceAttributes(g, seed_face_id).cylinder_axis, traversed,
                   GetNeighbors(g, seed_face_id), 1, <<seed_face_id>>)

CreateSimpleHole(g, face_id, counter) ==
    LET attrs == GetFaceAttributes(g, face_id)
    IN [ id |-> "hole_" \o SetW4(counter),
         type |-> "hole",
         subtype |-> "simple",
         source |-> "hole_recognizer",
         face_ids |-> <<face_id>>,
         params |-> [radius_mm |-> attrs.cylinder_radius,
                     diameter_mm |-> 2 * attrs.cylinder_radius] ]

\* the minimum radius over the faces, starting from 1e10
MinRadius(g, face_ids) ==
    LET rs == {GetFaceAttributes(g, face_ids[k]).cylinder_radius : k \in 1..Len(face_ids)}
    IN CHOOSE r \in rs : \A q \in rs : r <= q

CreateCounterboredHole(g, face_ids, counter) ==
    [ id |-> "hole_" \o SetW4(counter),
      type |-> "hole",
      subtype |-> "counterbored",
      source |-> "hole_recognizer",
      face_ids |-> face_ids,
      params |-> [radius_mm |-> MinRadius(g, face_ids),
                  diameter_mm |-> 2 * MinRadius(g, face_ids),
                  bore_count |-> Len(face_ids)] ]

\* the loop of Recognize; acc = [fs, c, traversed]
RECURSIVE HoleLoop(_, _, _, _, _)
HoleLoop(g, cyl_faces, k, excluded_faces, acc) ==
    IF k > Len(cyl_faces) THEN acc
    ELSE LET face_id == cyl_faces[k]
         IN IF \/ face_id \in acc.traversed
               \/ face_id \in excluded_faces
               \/ ~IsInternal(g, face_id)
               \/ ~HasConcaveCircularEdges(g, face_id)
            THEN HoleLoop(g, cyl_faces, k + 1, excluded_faces, acc)
            ELSE LET coaxial == FindCoaxialCylinders(g, face_id, acc.traversed)
                 IN IF Len(coaxial) > 1
                    THEN HoleLoop(g, cyl_faces, k + 1, excluded_faces,
                             [ fs |-> Append(acc.fs,
                                          CreateCounterboredHole(g, coaxial, acc.c)),
                               c |-> acc.c + 1,
                               traversed |-> acc.traversed \cup Range(coaxial) ])
                    ELSE HoleLoop(g, cyl_faces, k + 1, excluded_faces,
                             [ fs |-> Append(acc.fs, CreateSimpleHole(g, face_id, acc.c)),
                               c |-> acc.c + 1,
                               traversed |-> acc.traversed \cup {face_id} ])

HoleRecognize(g, excluded_faces, counter) ==
    HoleLoop(g, GetCylindricalFaces(g), 1, excluded_faces,
             [fs |-> <<>>, c |-> counter, traversed |-> {}])

----------------------------------------------------------------------------
(* ChamferRecognizer *)

SHARP_ANGLE_THRESHOLD == 20

\* axis_alignment_tolerance 0.1, in hundredths
AxisAlignmentTolerance == 10

HasLinearEdges(g, face_id) ==
    LET arcs == GetFace(g, face_id).arcs
        line_edge_count == Cardinality({k \in 1..Len(arcs) : arcs[k].type = "Line"})
    IN line_edge_count >= 2

HasSharpEdges(g, face_id) ==
    LET neighbors == GetNeighbors(g, face_id)
        sharp_edge_count ==
            Cardinality({k \in 1..Len(neighbors) :
                Abs(GetDihedralAngle(g, face_id, neighbors[k]) - 180)
                    > SHARP_ANGLE_THRESHOLD})
    IN sharp_edge_count >= 2

\* max_width * max_width * 10 with max_width in millimetres
IsChamferCandidate(g, face_id, max_width) ==
    LET attrs == GetFaceAttributes(g, face_id)
        nx == Abs(attrs.plane_normal[1])
        ny == Abs(attrs.plane_normal[2])
        nz == Abs(attrs.plane_normal[3])
        aligned_with_x == nx > 99 /\ ny < AxisAlignmentTolerance /\ nz < AxisAlignmentTolerance
        aligned_with_y == ny > 99 /\ nx < AxisAlignmentTolerance /\ nz < AxisAlignmentTolerance
        aligned_with_z == nz > 99 /\ nx < AxisAlignmentTolerance /\ ny < AxisAlignmentTolerance
    IN IF ~attrs.is_planar THEN FALSE
       ELSE IF aligned_with_x \/ aligned_with_y \/ aligned_with_z THEN FALSE
       ELSE IF Max3(nx, ny, nz) > 94 THEN FALSE
       ELSE IF attrs.area > max_width * max_width * 10 THEN FALSE
       ELSE IF ~HasLinearEdges(g, face_id) THEN FALSE
       ELSE HasSharpEdges(g, face_id)

CreateChamfer(g, face_id, counter) ==
    [ id |-> "chamfer_" \o SetW4(counter),
      type |-> "chamfer",
      subtype |-> "bevel",
      source |-> "chamfer_recognizer",
      face_ids |-> <<face_id>>,
      params |-> [area_mm2 |-> GetFaceAttributes(g, face_id).area] ]

\* the loop of Recognize over the face ids k..face_count-1; acc = [fs, c]
RECURSIVE ChamferLoop(_, _, _, _)
ChamferLoop(g, i, max_width, acc) ==
    IF i >= GetFaceCount(g) THEN acc
    ELSE IF GetFaceAttributes(g, i).is_planar /\ IsChamferCandidate(g, i, max_width)
         THEN ChamferLoop(g, i + 1, max_width,
                  [fs |-> Append(acc.fs, CreateChamfer(g, i, acc.c)), c |-> acc.c + 1])
         ELSE ChamferLoop(g, i + 1, max_width, acc)

ChamferRecognize(g, max_width, counter) ==
    ChamferLoop(g, 0, max_width, [fs |-> <<>>, c |-> counter])

----------------------------------------------------------------------------
(* double arithmetic.  A double is a binary floating-point number: every
   operation gives the exact result rounded to the nearest number with
   PrecisionBits significant bits, ties to the even one.  A value is held as
   a whole number of units of 1/Unit (the smallest spacing of the format). *)

\* significant bits kept (53 for the code's doubles)
PrecisionBits == 3

\* units per millimetre
Unit == 8

DBL_MAX == 1000000

RECURSIVE Pow2(_)
Pow2(k) == IF k <= 0 THEN 1 ELSE 2 * Pow2(k - 1)

\* the largest e >= e0 with 2^e <= a / b
RECURSIVE ExponentFrom(_, _, _)
ExponentFrom(a, b, e0) ==
    IF Pow2(e0 + 1) * b <= a THEN ExponentFrom(a, b, e0 + 1) ELSE e0

\* the distance between neighbouring doubles around a / b
Spacing(a, b) ==
    LET e == ExponentFrom(a, b, 0)
    IN IF e >= PrecisionBits - 1 THEN Pow2(e - PrecisionBits + 1) ELSE 1

\* a / b >= 0 rounded to a double
RoundPos(a, b) ==
    IF a = 0 THEN 0
    ELSE LET s == Spacing(a, b)
             q == a \div (b * s)
             r == a - q * b * s
             up == 2 * r > b * s \/ (2 * r = b * s /\ q % 2 = 1)
         IN (IF up THEN q + 1 ELSE q) * s

\* the rational a / b (b > 0) rounded to a double
Fl(a, b) == IF a < 0 THEN -RoundPos(-a, b) ELSE RoundPos(a, b)

FAdd(x, y) == Fl(x + y, 1)
FSub(x, y) == Fl(x - y, 1)
FMul(x, y) == Fl(x * y, Unit)
\* x / y for y > 0
FDiv(x, y) == Fl(x * Unit, y)

\* std::sqrt(x) for x >= 0, correctly rounded
FSqrt(x) ==
    LET y == x * Unit
        r == CHOOSE k \in 0..y : k * k <= y /\ (k + 1) * (k + 1) > y
        s == Spacing(r, 1)
        q == r \div s
        lo == q * s
        hi == lo + s
    IN IF 4 * y > (lo + hi) * (lo + hi) THEN hi
       ELSE IF 4 * y < (lo + hi) * (lo + hi) THEN lo
       ELSE IF q % 2 = 0 THEN lo ELSE hi

----------------------------------------------------------------------------
(* ThinWallRecognizerV2 *)

SMOOTH_EDGE_THRESHOLD == 177
MIN_REGION_AREA == 50

\* THICKNESS_VARIANCE_LIMIT 0.60, in hundredths
THICKNESS_VARIANCE_LIMIT == 60

IsThinWallSeedCandidate(g, face_id) ==
    LET attrs == GetFaceAttributes(g, face_id)
        neighbors == GetNeighbors(g, face_id)
        n == Len(neighbors)
        ang(k) == GetDihedralAngle(g, face_id, neighbors[k])
        smooth_edge_count ==
            Cardinality({k \in 1..n : Abs(ang(k)) > SMOOTH_EDGE_THRESHOLD})
        concave_edge_count ==
            Cardinality({k \in 1..n : ~(Abs(ang(k)) > SMOOTH_EDGE_THRESHOLD) /\ ~(ang(k) < 0)})
        \* smooth_ratio >= 0.25 and concave_ratio < 0.70, cleared of the division
        has_smooth_edges == 100 * smooth_edge_count >= 25 * n
        not_deep_cavity == 100 * concave_edge_count < 70 * n
    IN IF ~attrs.is_planar THEN FALSE
       ELSE IF attrs.area < MIN_REGION_AREA THEN FALSE
       ELSE IF n = 0 THEN FALSE
       ELSE has_smooth_edges \/ not_deep_cavity

TwFindSeedFaces(g) ==
    SetToSeq({i \in 0..(GetFaceCount(g) - 1) : IsThinWallSeedCandidate(g, i)})

\* area < MIN_REGION_AREA * 0.5, cleared of the fraction
TwShouldPropagate(g, from_face, to_face) ==
    LET to_attrs == GetFaceAttributes(g, to_face)
    IN IF ~to_attrs.is_planar THEN FALSE
       ELSE IF 2 * to_attrs.area < MIN_REGION_AREA THEN FALSE
       ELSE ~(Abs(GetDihedralAngle(g, from_face, to_face)) >= SMOOTH_EDGE_THRESHOLD)

\* the inner loop of GrowRegionFromSeed over the neighbours of current_id;
\* st = [queue, traversed (global_traversed), region (region.face_ids)]
RECURSIVE TwVisitNeighbors(_, _, _, _, _)
TwVisitNeighbors(g, current_id, nbrs, k, st) ==
    IF k > Len(nbrs) THEN st
    ELSE IF nbrs[k] \notin st.traversed /\ TwShouldPropagate(g, current_id, nbrs[k])
         THEN TwVisitNeighbors(g, current_id, nbrs, k + 1,
                  [ queue |-> Append(st.queue, nbrs[k]),
                    traversed |-> st.traversed \cup {nbrs[k]},
                    region |-> st.region \cup {nbrs[k]} ])
         ELSE TwVisitNeighbors(g, current_id, nbrs, k + 1, st)

\* the while loop of GrowRegionFromSeed
RECURSIVE TwBfs(_, _)
TwBfs(g, st) ==
    IF st.queue = <<>> THEN st
    ELSE LET current_id == Head(st.queue)
         IN TwBfs(g, TwVisitNeighbors(g, current_id, GetNeighbors(g, current_id), 1,
                                      [st EXCEPT !.queue = Tail(st.queue)]))

GrowRegionFromSeed(g, seed_id, global_traversed) ==
    TwBfs(g, [ queue |-> <<seed_id>>,
               traversed |-> global_traversed \cup {seed_id},
               region |-> {seed_id} ])

Sum(f, S) ==
    LET RECURSIVE Acc(_)
        Acc(T) == IF T = {} THEN 0
                  ELSE LET x == CHOOSE y \in T : TRUE IN f[x] + Acc(T \ {x})
    IN Acc(S)

\* ComputeDominantNormal: the direction of the sum of the faces' normals
\* (the plane's own normal for a planar face), the zero vector when they cancel
ComputeDominantNormal(g, face_ids) ==
    LET normal(f) == IF GetFaceAttributes(g, f).is_planar
                     THEN GetFaceAttributes(g, f).plane_normal
                     ELSE GetFaceAttributes(g, f).normal
    IN << Sum([f \in face_ids |-> normal(f)[1]], face_ids),
          Sum([f \in face_ids |-> normal(f)[2]], face_ids),
          Sum([f \in face_ids |-> normal(f)[3]], face_ids) >>

\* EstimateThicknessAlongNormal: the nearest hit, within 10 * threshold_, of
\* the two rays cast from the face's centroid along the normal and against
\* it, 0 when none; gp_Dir throws for a zero vector, and the catch-all handler
\* returns 0
EstimateThicknessAlongNormal(g, face_id, normal, threshold) ==
    LET dist == Fl(GetFace(g, face_id).thick, 1)
    IN IF normal = << 0, 0, 0 >> THEN 0
       ELSE IF dist > threshold * 10 * Unit THEN 0
       ELSE dist

\* the loop of MeasureRegionThickness over thickness_samples;
\* acc = [sum, sum_sq, min_t, max_t]
RECURSIVE SampleStatistics(_, _, _)
SampleStatistics(samples, k, acc) ==
    IF k > Len(samples) THEN acc
    ELSE LET t == samples[k]
         IN SampleStatistics(samples, k + 1,
                [ sum |-> FAdd(acc.sum, t),
                  sum_sq |-> FAdd(acc.sum_sq, FMul(t, t)),
                  min_t |-> IF t < acc.min_t THEN t ELSE acc.min_t,
                  max_t |-> IF t > acc.max_t THEN t ELSE acc.max_t ])

\* MeasureRegionThickness: the faces of the region in ascending order
\* (std::set), their samples in (0.01, 2 * threshold), and the statistics of
\* the samples; a default ThicknessMeasurement (all 0) when there is none
MeasureRegionThickness(g, region, threshold) ==
    LET faces == SetToSeq(region)
        dominant_normal == ComputeDominantNormal(g, region)
        all == [k \in 1..Len(faces) |->
                   EstimateThicknessAlongNormal(g, faces[k], dominant_normal, threshold)]
        Kept(t) == 100 * t > Unit /\ t < FMul(threshold * Unit, 2 * Unit)
        thickness_samples == SelectSeq(all, Kept)
        n == Len(thickness_samples)
    IN IF n = 0
       THEN [ avg_thickness |-> 0, min_thickness |-> 0, max_thickness |-> 0,
              variance |-> 0, overlap_ratio |-> 0 ]
       ELSE LET st == SampleStatistics(thickness_samples, 1,
                          [sum |-> 0, sum_sq |-> 0, min_t |-> DBL_MAX, max_t |-> 0])
                avg == Fl(st.sum, n)
            IN [ avg_thickness |-> avg,
                 min_thickness |-> st.min_t,
                 max_thickness |-> st.max_t,
                 variance |-> FSub(Fl(st.sum_sq, n), FMul(avg, avg)),
                 overlap_ratio |-> Fl(n * Unit, Len(faces)) ]

\* THICKNESS_VARIANCE_LIMIT as a double
VarianceLimit == Fl(THICKNESS_VARIANCE_LIMIT * Unit, 100)

\* the comparison cv > THICKNESS_VARIANCE_LIMIT of ValidateRegion: the square
\* root of a negative variance is NaN, and every comparison with NaN is false
CvAboveLimit(variance, avg_thickness) ==
    /\ variance >= 0
    /\ FDiv(FSqrt(variance), avg_thickness) > VarianceLimit

\* ValidateRegion: the average in (0, threshold], cv <= 0.60, total area >= 50
ValidateRegion(g, region, m, threshold) ==
    LET total_area == Sum([f \in region |-> GetFaceAttributes(g, f).area], region)
    IN IF m.avg_thickness <= 0 \/ m.avg_thickness > threshold * Unit THEN FALSE
       ELSE IF CvAboveLimit(m.variance, m.avg_thickness) THEN FALSE
       ELSE IF total_area < MIN_REGION_AREA THEN FALSE
       ELSE TRUE

ClassifySubtype(region) ==
    IF Cardinality(region) >= 4 THEN "sheet"
    ELSE IF Cardinality(region) = 2 THEN "web"
    ELSE "wall"

TwCreateFeature(g, region, m, counter) ==
    [ id |-> "thin_wall_" \o IntToString(counter),
      type |-> "thin_wall",
      subtype |-> ClassifySubtype(region),
      source |-> "thin_wall_recognizer_v2",
      face_ids |-> SetToSeq(region),
      params |-> [ avg_thickness |-> m.avg_thickness,
                   min_thickness |-> m.min_thickness,
                   max_thickness |-> m.max_thickness,
                   variance |-> m.variance,
                   total_area |-> Sum([f \in region |-> GetFaceAttributes(g, f).area],
                                      region) ] ]

\* the loop of Recognize over the seeds; acc = [fs, c, traversed]
RECURSIVE TwLoop(_, _, _, _, _)
TwLoop(g, seeds, k, threshold, acc) ==
    IF k > Len(seeds) THEN acc
    ELSE IF seeds[k] \in acc.traversed THEN TwLoop(g, seeds, k + 1, threshold, acc)
    ELSE LET grown == GrowRegionFromSeed(g, seeds[k], acc.traversed)
             m == MeasureRegionThickness(g, grown.region, threshold)
             acc1 == [acc EXCEPT !.traversed = grown.traversed]
         IN IF Cardinality(grown.region) < 2
            THEN TwLoop(g, seeds, k + 1, threshold, acc1)
            ELSE IF ~ValidateRegion(g, grown.region, m, threshold)
            THEN TwLoop(g, seeds, k + 1, threshold, acc1)
            ELSE TwLoop(g, seeds, k + 1, threshold,
                     [acc1 EXCEPT !.fs = Append(acc.fs,
                                             TwCreateFeature(g, grown.region, m, acc.c)),
                                  !.c = acc.c + 1])

ThinWallRecognize(g, threshold, counter) ==
    TwLoop(g, TwFindSeedFaces(g), 1, threshold,
           [fs |-> <<>>, c |-> counter, traversed |-> {}])

----------------------------------------------------------------------------
(* CavityRecognizer *)

CONVEX_ANGLE_THRESHOLD == 5

\* "positive, not smooth" and "negative, not smooth" as the recognizer tests them
CavIsConcave(dihedral) == dihedral > CONVEX_ANGLE_THRESHOLD /\ Abs(dihedral) < 177
CavIsConvex(dihedral) == dihedral < -CONVEX_ANGLE_THRESHOLD /\ Abs(dihedral) < 177

\* the test of one face in FindSeedFaces; concave_ratio >= 0.6 cleared of the division
IsCavitySeed(g, i) ==
    LET neighbors == GetNeighbors(g, i)
        n == Len(neighbors)
        concave_edge_count ==
            Cardinality({k \in 1..n : CavIsConcave(GetDihedralAngle(g, i, neighbors[k]))})
    IN IF n = 0 THEN FALSE
       ELSE 10 * concave_edge_count >= 6 * n /\ concave_edge_count >= 2

CavFindSeedFaces(g) ==
    SetToSeq({i \in 0..(GetFaceCount(g) - 1) : IsCavitySeed(g, i)})

CavShouldPropagate(g, face1_id, face2_id) ==
    LET dihedral == GetDihedralAngle(g, face1_id, face2_id)
        is_smooth == Abs(dihedral) > 177
        is_concave == dihedral > CONVEX_ANGLE_THRESHOLD /\ Abs(dihedral) < 177
    IN is_smooth \/ is_concave

\* the inner loop of PropagateFromSeed; st = [queue, traversed, cavity_faces]
RECURSIVE CavVisitNeighbors(_, _, _, _, _)
CavVisitNeighbors(g, current_id, nbrs, k, st) ==
    IF k > Len(nbrs) THEN st
    ELSE IF nbrs[k] \notin st.traversed /\ CavShouldPropagate(g, current_id, nbrs[k])
         THEN CavVisitNeighbors(g, current_id, nbrs, k + 1,
                  [st EXCEPT !.queue = Append(st.queue, nbrs[k]),
                             !.traversed = st.traversed \cup {nbrs[k]}])
         ELSE CavVisitNeighbors(g, current_id, nbrs, k + 1, st)

\* the while loop of PropagateFromSeed
RECURSIVE CavBfs(_, _)
CavBfs(g, st) ==
    IF st.queue = <<>> THEN st
    ELSE LET current_id == Head(st.queue)
         IN CavBfs(g, CavVisitNeighbors(g, current_id, GetNeighbors(g, current_id), 1,
                          [st EXCEPT !.queue = Tail(st.queue),
                                     !.cavity_faces = st.cavity_faces \cup {current_id}]))

\* PropagateFromSeed(seed_id, traversed) called with an empty traversed set
PropagateFromSeed(g, seed_id) ==
    CavBfs(g, [queue |-> <<seed_id>>, traversed |-> {seed_id}, cavity_faces |-> {}])

\* the number of faces of the set with a convex edge to a face outside the set
BoundaryFaceCount(g, cavity_faces) ==
    Cardinality({f \in cavity_faces :
        LET neighbors == GetNeighbors(g, f)
        IN \E k \in 1..Len(neighbors) :
              /\ neighbors[k] \notin cavity_faces
              /\ CavIsConvex(GetDihedralAngle(g, f, neighbors[k]))})

TotalArea(g, cavity_faces) ==
    Sum([f \in cavity_faces |-> GetFaceAttributes(g, f).area], cavity_faces)

\* EstimateCavityVolume(S) > max_volume, i.e. area * sqrt(area) * 0.1 > max_volume,
\* squared: area^3 > 100 * max_volume^2.  Total areas stay below 1000, so the
\* test is false from max_volume = 3163 on (100 * 3163^2 > 1000^3).
VolumeExceeds(total_area, max_volume) ==
    IF max_volume >= 3163 THEN FALSE
    ELSE total_area * total_area * total_area > 100 * max_volume * max_volume

\* (size_t)(total_faces * 0.25) is total_faces \div 4; the ratios are cleared
\* of their divisions
SizeChecks(size, total_faces) ==
    IF size < 3 THEN FALSE
    ELSE IF size >= total_faces \div 4 THEN FALSE
    ELSE TRUE

ValidateCavity(g, cavity_faces, max_volume) ==
    LET size == Cardinality(cavity_faces)
        total_faces == GetFaceCount(g)
    IN IF ~SizeChecks(size, total_faces) THEN FALSE
       ELSE IF size > 15 /\ 4 * BoundaryFaceCount(g, cavity_faces) < size THEN FALSE
       ELSE IF VolumeExceeds(TotalArea(g, cavity_faces), max_volume) THEN FALSE
       ELSE IF 5 * BoundaryFaceCount(g, cavity_faces) < size THEN FALSE
       ELSE TRUE

CreateCavity(g, cavity_faces, counter) ==
    [ id |-> "cavity_" \o SetW4(counter),
      type |-> "cavity",
      subtype |-> "pocket",
      source |-> "cavity_recognizer",
      face_ids |-> SetToSeq(cavity_faces),
      params |-> [ face_count |-> Cardinality(cavity_faces),
                   total_area_mm2 |-> TotalArea(g, cavity_faces) ] ]

\* a seed loop that forgets what a pass has traversed
GlobalTraversedKept(global_traversed, traversed) == global_traversed

\* what one pass of the seed loop adds to global_traversed
GlobalTraversedAfter(global_traversed, traversed) == global_traversed \cup traversed

\* the loop of Recognize over the seeds; acc = [fs, c, global_traversed]
RECURSIVE CavLoop(_, _, _, _, _)
CavLoop(g, seeds, k, max_volume, acc) ==
    IF k > Len(seeds) THEN acc
    ELSE IF seeds[k] \in acc.global_traversed
         THEN CavLoop(g, seeds, k + 1, max_volume, acc)
    ELSE LET p == PropagateFromSeed(g, seeds[k])
             acc1 == [acc EXCEPT !.global_traversed =
                         GlobalTraversedAfter(acc.global_traversed, p.traversed)]
         IN IF ValidateCavity(g, p.cavity_faces, max_volume)
            THEN CavLoop(g, seeds, k + 1, max_volume,
                     [acc1 EXCEPT !.fs = Append(acc.fs,
                                             CreateCavity(g, p.cavity_faces, acc.c)),
                                  !.c = acc.c + 1])
            ELSE CavLoop(g, seeds, k + 1, max_volume, acc1)

CavityRecognize(g, max_volume, counter) ==
    CavLoop(g, CavFindSeedFaces(g), 1, max_volume,
            [fs |-> <<>>, c |-> counter, global_traversed |-> {}])

----------------------------------------------------------------------------
(* Shapes: what the kernel answers for each face and each B-rep edge *)

\* an edge curve of a face: GetType(), the circle centre's distance to the
\* cylinder axis (concentric or not) and the parameter range in degrees
Line == [type |-> "Line", concentric |-> FALSE, arc |-> 0]
Arc(deg) == [type |-> "Circle", concentric |-> TRUE, arc |-> deg]
OffAxisArc(deg) == [type |-> "Circle", concentric |-> FALSE, arc |-> deg]

Axis(d, o) == [dir |-> d, off |-> o, along |-> 0]

\* a face as the kernel describes it; h is the face's identity (IsSame)
PlaneFace(area, pn, arcs, thick) ==
    [ h |-> 0, kind |-> "Plane", area |-> area, normalOK |-> TRUE, sn |-> pn,
      orient |-> "FORWARD", loc |-> 0, pn |-> pn, axis |-> DefaultAxis,
      radius |-> 0, major |-> 0, arcs |-> arcs, inward |-> FALSE, thick |-> thick ]

CylFace(radius, axis, arcs, inward) ==
    [ h |-> 0, kind |-> "Cylinder", area |-> 30, normalOK |-> TRUE, sn |-> <<100, 0, 0>>,
      orient |-> IF inward THEN "REVERSED" ELSE "FORWARD", loc |-> 0, pn |-> ZeroVec,
      axis |-> axis, radius |-> radius, major |-> 0, arcs |-> arcs,
      inward |-> inward, thick |-> 0 ]

TorusFace(minor, major, axis, arcs) ==
    [ h |-> 0, kind |-> "Torus", area |-> 20, normalOK |-> TRUE, sn |-> <<0, 100, 0>>,
      orient |-> "FORWARD", loc |-> 0, pn |-> ZeroVec, axis |-> axis,
      radius |-> minor, major |-> major, arcs |-> arcs, inward |-> FALSE, thick |-> 0 ]

\* a cone whose parametric midpoint is the apex: the normal is undefined there
ApexConeFace ==
    [ h |-> 0, kind |-> "Cone", area |-> 10, normalOK |-> FALSE, sn |-> ZeroVec,
      orient |-> "FORWARD", loc |-> 0, pn |-> ZeroVec, axis |-> DefaultAxis,
      radius |-> 0, major |-> 0, arcs |-> <<>>, inward |-> FALSE, thick |-> 0 ]

\* a B-rep edge: the faces MapShapesAndAncestors lists for it, and what
\* ComputeDihedralAngle evaluates on it (ok = FALSE: an evaluation failure)
BEdge(fs, theta) == [e |-> 0, faces |-> fs, theta |-> theta, ok |-> TRUE]
FailingBEdge(fs) == [e |-> 0, faces |-> fs, theta |-> 90, ok |-> FALSE]

\* traversal order gives the identities: face i has handle i - 1, edge i has id i
MakeShape(fs, es) ==
    [ faces  |-> [i \in 1..Len(fs) |-> [fs[i] EXCEPT !.h = i - 1]],
      bedges |-> [i \in 1..Len(es) |-> [es[i] EXCEPT !.e = i]] ]

NoShape == MakeShape(<<>>, <<>>)

SeqsUpTo(S, n) == UNION {[1..k -> S] : k \in 0..n}

----------------------------------------------------------------------------
(* The AAG object alone: any sequence of Build calls on one object *)

MaxAagFaces == 2
MaxAagEdges == 2

PlaneA == PlaneFace(100, <<0, 0, 100>>, <<Line, Line>>, 0)
HoleCylA == CylFace(5, Axis("z", 0), <<Arc(180), Arc(180)>>, TRUE)
TorusA == TorusFace(1, 6, Axis("z", 0), <<Arc(90)>>)

\* the face lists of the shapes built: every kind the switch tells apart by a
\* flag, at either position, and a face whose normal is undefined
AagFaceLists ==
    { fs \in { <<PlaneA>>, <<HoleCylA>>,
               <<HoleCylA, PlaneA>>, <<PlaneA, TorusA>>,
               <<TorusA, ApexConeFace>>, <<ApexConeFace, HoleCylA>>,
               <<PlaneA, HoleCylA, TorusA>> } : Len(fs) <= MaxAagFaces }

\* edges of a shape with n faces: a boundary edge, a smooth seam edge listed
\* twice for one face, and convex, concave and failing edges between two faces
AagEdgeProtos(n) ==
    { BEdge(<<0>>, 0), BEdge(<<0, 0>>, 178) } \cup
    ( IF n < 2 THEN {}
      ELSE { BEdge(<<0, 1>>, -90), BEdge(<<1, 0>>, 90), FailingBEdge(<<0, 1>>) } )

AagShapes ==
    UNION { { MakeShape(fs, es) : es \in SeqsUpTo(AagEdgeProtos(Len(fs)), MaxAagEdges) }
            : fs \in AagFaceLists }

IdleRec ==
    /\ features = <<>>
    /\ counters = [t \in {"fillet", "chamfer", "thin_wall", "hole", "cavity"} |-> 0]
    /\ modules = {}
    /\ fillet_faces = {}
    /\ log = <<>>
    /\ sessions = 0

recVars == <<features, counters, modules, fillet_faces, log, sessions>>

InitAag ==
    /\ aag = EmptyAAG
    /\ shape = NoShape
    /\ pc = "new"
    /\ IdleRec
    /\ IdleAux

\* a new AAG object is constructed
AagNew ==
    /\ aag' = EmptyAAG
    /\ shape' = NoShape
    /\ pc' = "new"
    /\ UNCHANGED recVars
    /\ UNCHANGED auxVars

\* AAG::Build(shape) on the existing object
AagBuild ==
    \E sh \in AagShapes :
        /\ aag' = Build(aag, sh)
        /\ shape' = sh
        /\ pc' = "built"
        /\ UNCHANGED recVars
        /\ UNCHANGED auxVars

NextAag == AagNew \/ AagBuild

SpecAag == InitAag /\ [][NextAag]_vars

----------------------------------------------------------------------------
(* Claims about the AAG object (SpecAag) *)

SameFacePair(e1, e2) ==
    {e1.face1_id, e1.face2_id} = {e2.face1_id, e2.face2_id}

\* C8: for every AAG edge with signed dihedral angle theta, is_smooth holds
\* exactly when |theta| > 177, is_convex exactly when theta < 0 and the edge is
\* not smooth, is_concave exactly when theta > 0 and the edge is not smooth; an
\* edge whose theta is 0 (evaluation failure) is not flagged concave.
C8_FlagsFollowAngle ==
    \A k \in 1..Len(aag.edges_) :
        LET e == aag.edges_[k]
            smooth == Abs(e.dihedral_angle) > 177
        IN /\ e.is_smooth = smooth
           /\ e.is_convex = (e.dihedral_angle < 0 /\ ~smooth)
           /\ e.is_concave = (e.dihedral_angle > 0 /\ ~smooth)

\* C9: after Build the edge list holds at most one edge per unordered face
\* pair, also for shapes in which two faces share several B-rep edges and for
\* B-rep edges whose two incident faces are the same face.
C9_OneEdgePerFacePair ==
    pc = "built" =>
        \A i, j \in 1..Len(aag.edges_) :
            i # j => ~SameFacePair(aag.edges_[i], aag.edges_[j])

\* C10: the outcome of Build depends on the shape alone: what a Build leaves
\* in an AAG object that built other shapes before equals what the same Build
\* leaves in a newly constructed AAG (face ids, attributes and flags, edge
\* pairs, angles).
C10_BuildDependsOnShapeOnly ==
    pc = "built" => aag = Build(EmptyAAG, shape)

----------------------------------------------------------------------------
(* The AAG as the engine builds it: a new object, one Build *)

InitGraph ==
    /\ aag = EmptyAAG
    /\ shape = NoShape
    /\ pc = "new"
    /\ IdleRec
    /\ IdleAux

\* build_aag on a loaded shape: make_unique<AAG>() and Build
GraphBuild ==
    /\ pc = "new"
    /\ \E sh \in AagShapes :
          /\ shape' = sh
          /\ aag' = Build(EmptyAAG, sh)
    /\ pc' = "built"
    /\ UNCHANGED recVars
    /\ UNCHANGED auxVars

NextGraph == GraphBuild

SpecGraph == InitGraph /\ [][NextGraph]_vars

\* C11: for every pair of face ids i and j joined by an AAG edge,
\* GetDihedralAngle(i, j) equals GetDihedralAngle(j, i), also when the two
\* faces are joined by several B-rep edges with different angles.
C11_DihedralSymmetric ==
    \A k \in 1..Len(aag.edges_) :
        LET i == aag.edges_[k].face1_id
            j == aag.edges_[k].face2_id
        IN GetDihedralAngle(aag, i, j) = GetDihedralAngle(aag, j, i)

\* two distinct faces are joined by two AAG edges with different angles, and
\* the angle is asked for
C11_Witness ==
    /\ pc = "built"
    /\ \E k, l \in 1..Len(aag.edges_) :
          /\ aag.edges_[k].face1_id # aag.edges_[k].face2_id
          /\ SameFacePair(aag.edges_[k], aag.edges_[l])
          /\ aag.edges_[k].dihedral_angle # aag.edges_[l].dihedral_angle
          /\ GetDihedralAngle(aag, aag.edges_[k].face1_id, aag.edges_[k].face2_id)
                = aag.edges_[l].dihedral_angle

----------------------------------------------------------------------------
(* Engine: analysis sessions of one process *)

\* a part of a solid: faces, and B-rep edges over the part's own face numbers
Part(fs, es) == [faces |-> fs, edges |-> es]

\* the compound of two parts: the second part's faces are numbered after the first's
JoinParts(p, q) ==
    [ faces |-> p.faces \o q.faces,
      edges |-> p.edges \o
                [k \in 1..Len(q.edges) |->
                    [q.edges[k] EXCEPT !.faces =
                        [i \in 1..Len(q.edges[k].faces) |->
                            q.edges[k].faces[i] + Len(p.faces)]]] ]

ShapeOf(p) == MakeShape(p.faces, p.edges)

\* a small axis-aligned planar face no recognizer picks up by itself
PadFace == PlaneFace(10, <<0, 0, 100>>, <<Line, Line, Line, Line>>, 0)

Pad(n) == Part([i \in 1..n |-> PadFace], <<>>)

\* a toroidal blend (face 0), a cylindrical blend (1), a bore of two half
\* cylinders' worth of semicircles (2) and, next to it on the same axis, an
\* internal cylinder bounded by quarter arcs (3)
FilletHolePart ==
    Part(<< TorusFace(1, 6, Axis("z", 0), <<Arc(90), Arc(90)>>),
            CylFace(2, Axis("x", 4), <<Arc(90), Line, Arc(90), Line>>, FALSE),
            CylFace(5, Axis("z", 0), <<Arc(180), Line, Arc(180), Line>>, TRUE),
            CylFace(3, Axis("z", 0), <<Arc(90), Line, Arc(90), Line>>, TRUE) >>,
         << BEdge(<<2, 3>>, 90) >>)

\* a bevel (face 0) between the two sides (1, 2) of a plate 2 mm thick
ChamferThinPart ==
    Part(<< PlaneFace(20, <<70, 70, 0>>, <<Line, Line, Line, Line>>, 0),
            PlaneFace(100, <<0, 0, 100>>, <<Line, Line, Line, Line>>, 2 * Unit),
            PlaneFace(100, <<100, 0, 0>>, <<Line, Line, Line, Line>>, 2 * Unit) >>,
         << BEdge(<<0, 1>>, -45), BEdge(<<0, 2>>, -45), BEdge(<<1, 2>>, -90) >>)

\* a pocket: floor and two walls meeting in concave edges (0, 1, 2), the
\* floor's rim convex against the outside (3)
PocketPart ==
    Part(<< PadFace, PadFace, PadFace, PadFace >>,
         << BEdge(<<0, 1>>, 90), BEdge(<<1, 2>>, 90), BEdge(<<0, 2>>, 90),
            BEdge(<<0, 3>>, -90) >>)

\* the number of plain faces added to a part with a pocket
PadCount == 12

RecShapes ==
    { ShapeOf(Pad(1)),
      ShapeOf(FilletHolePart),
      ShapeOf(ChamferThinPart),
      ShapeOf(JoinParts(PocketPart, Pad(PadCount))),
      ShapeOf(JoinParts(JoinParts(FilletHolePart, ChamferThinPart),
                        JoinParts(PocketPart, Pad(PadCount)))) }

ModuleNames ==
    { "recognize_fillets", "recognize_chamfers", "recognize_thin_walls",
      "recognize_holes", "recognize_shafts", "recognize_cavities" }

\* the module strings passed to recognize_features: "all", or a list of names
ModuleChoices == {{"all"}} \cup SUBSET ModuleNames

run_all(m) == m = {"all"}
Selected(m, name) == run_all(m) \/ name \in m

\* the recognizers run per session
MaxSessions == 2

ThinWallThreshold == 3
FilletMaxRadius == 10
ChamferMaxWidth == 5
CavityMaxVolume == 1000000000

FaceIdsOf(fs) == UNION {Range(fs[k].face_ids) : k \in 1..Len(fs)}

\* the order of the if-blocks of recognize_features, with holes and thin
\* walls exchanged
NextStageHolesEarly(stage) ==
    CASE stage = "fillets" -> "chamfers"
      [] stage = "chamfers" -> "holes"
      [] stage = "holes" -> "thin_walls"
      [] stage = "thin_walls" -> "shafts"
      [] stage = "shafts" -> "cavities"
      [] OTHER -> "done"

\* the order of the if-blocks of recognize_features
NextStage(stage) ==
    CASE stage = "fillets" -> "chamfers"
      [] stage = "chamfers" -> "thin_walls"
      [] stage = "thin_walls" -> "holes"
      [] stage = "holes" -> "shafts"
      [] stage = "shafts" -> "cavities"
      [] OTHER -> "done"

InitRec ==
    /\ aag = EmptyAAG
    /\ shape = NoShape
    /\ pc = "new"
    /\ IdleRec
    /\ IdleAux

\* a new Engine is constructed; the recognizers' static counters live on
EngineNew ==
    /\ pc = "done"
    /\ sessions < MaxSessions
    /\ aag' = EmptyAAG
    /\ shape' = NoShape
    /\ features' = <<>>
    /\ modules' = {}
    /\ fillet_faces' = {}
    /\ log' = <<>>
    /\ pc' = "new"
    /\ UNCHANGED <<counters, sessions>>
    /\ UNCHANGED auxVars

\* load_step: the shape read from the file
LoadStep ==
    /\ pc = "new"
    /\ \E sh \in RecShapes : shape' = sh
    /\ pc' = "loaded"
    /\ UNCHANGED <<aag, features, counters, modules, fillet_faces, log, sessions>>
    /\ UNCHANGED auxVars

\* build_aag: a new AAG object, built from the shape
BuildAag ==
    /\ pc = "loaded"
    /\ aag' = Build(EmptyAAG, shape)
    /\ pc' = "built"
    /\ UNCHANGED <<shape, features, counters, modules, fillet_faces, log, sessions>>
    /\ UNCHANGED auxVars

\* recognize_features up to the first if-block
StartRecognize ==
    /\ pc \in {"built", "done"}
    /\ sessions < MaxSessions
    /\ \E m \in ModuleChoices : modules' = m
    /\ features' = <<>>
    /\ fillet_faces' = {}
    /\ log' = <<>>
    /\ sessions' = sessions + 1
    /\ pc' = "fillets"
    /\ UNCHANGED <<aag, shape, counters>>
    /\ UNCHANGED auxVars

RunFillets ==
    /\ pc = "fillets"
    /\ IF Selected(modules, "recognize_fillets")
       THEN LET r == FilletRecognize(aag, FilletMaxRadius, counters["fillet"])
            IN /\ features' = features \o r.fs
               /\ counters' = [counters EXCEPT !["fillet"] = r.c]
               /\ fillet_faces' = fillet_faces \cup FaceIdsOf(r.fs)
               /\ log' = Append(log, "fillet")
       ELSE UNCHANGED <<features, counters, fillet_faces, log>>
    /\ pc' = NextStage("fillets")
    /\ UNCHANGED <<aag, shape, modules, sessions>>
    /\ UNCHANGED auxVars

RunChamfers ==
    /\ pc = "chamfers"
    /\ IF Selected(modules, "recognize_chamfers")
       THEN LET r == ChamferRecognize(aag, ChamferMaxWidth, counters["chamfer"])
            IN /\ features' = features \o r.fs
               /\ counters' = [counters EXCEPT !["chamfer"] = r.c]
               /\ log' = Append(log, "chamfer")
       ELSE UNCHANGED <<features, counters, log>>
    /\ pc' = NextStage("chamfers")
    /\ UNCHANGED <<aag, shape, modules, fillet_faces, sessions>>
    /\ UNCHANGED auxVars

RunThinWalls ==
    /\ pc = "thin_walls"
    /\ IF Selected(modules, "recognize_thin_walls")
       THEN LET r == ThinWallRecognize(aag, ThinWallThreshold, counters["thin_wall"])
            IN /\ features' = features \o r.fs
               /\ counters' = [counters EXCEPT !["thin_wall"] = r.c]
               /\ log' = Append(log, "thin wall")
       ELSE UNCHANGED <<features, counters, log>>
    /\ pc' = NextStage("thin_walls")
    /\ UNCHANGED <<aag, shape, modules, fillet_faces, sessions>>
    /\ UNCHANGED auxVars

RunHoles ==
    /\ pc = "holes"
    /\ IF Selected(modules, "recognize_holes")
       THEN LET r == HoleRecognize(aag, fillet_faces, counters["hole"])
            IN /\ features' = features \o r.fs
               /\ counters' = [counters EXCEPT !["hole"] = r.c]
               /\ log' = Append(log, "hole")
       ELSE UNCHANGED <<features, counters, log>>
    /\ pc' = NextStage("holes")
    /\ UNCHANGED <<aag, shape, modules, fillet_faces, sessions>>
    /\ UNCHANGED auxVars

\* run_shaft_recognizer lists the cylindrical faces and adds no feature
RunShafts ==
    /\ pc = "shafts"
    /\ IF Selected(modules, "recognize_shafts")
       THEN log' = Append(log, "shaft")
       ELSE UNCHANGED log
    /\ pc' = NextStage("shafts")
    /\ UNCHANGED <<aag, shape, features, counters, modules, fillet_faces, sessions>>
    /\ UNCHANGED auxVars

RunCavities ==
    /\ pc = "cavities"
    /\ IF Selected(modules, "recognize_cavities")
       THEN LET r == CavityRecognize(aag, CavityMaxVolume, counters["cavity"])
            IN /\ features' = features \o r.fs
               /\ counters' = [counters EXCEPT !["cavity"] = r.c]
               /\ log' = Append(log, "cavity")
       ELSE UNCHANGED <<features, counters, log>>
    /\ pc' = NextStage("cavities")
    /\ UNCHANGED <<aag, shape, modules, fillet_faces, sessions>>
    /\ UNCHANGED auxVars

NextRec ==
    \/ EngineNew
    \/ LoadStep
    \/ BuildAag
    \/ StartRecognize
    \/ RunFillets
    \/ RunChamfers
    \/ RunThinWalls
    \/ RunHoles
    \/ RunShafts
    \/ RunCavities

SpecRec == InitRec /\ [][NextRec]_vars

----------------------------------------------------------------------------
(* The cavity recognizer alone: one Recognize on one solid *)

\* three pockets (faces 0-2, 3-5 and 8-10) with their rims (6, 7, 11); the
\* pair 0-2 is left to the added edges
PocketsPart ==
    Part(<< PadFace, PadFace, PadFace, PadFace, PadFace, PadFace,
            PadFace, PadFace, PadFace, PadFace, PadFace, PadFace >>,
         << BEdge(<<0, 1>>, 90), BEdge(<<1, 2>>, 90),
            BEdge(<<3, 4>>, 90), BEdge(<<4, 5>>, 90), BEdge(<<3, 5>>, 90),
            BEdge(<<8, 9>>, 90), BEdge(<<9, 10>>, 90), BEdge(<<8, 10>>, 90),
            BEdge(<<0, 6>>, -90), BEdge(<<3, 7>>, -90), BEdge(<<8, 11>>, -90) >>)

\* B-rep edges added to the pockets: a third edge of the first pocket,
\* concave or convex; a concave or smooth bridge between the pockets; a second
\* edge between a pocket face and its rim, or between two faces of a pocket,
\* the last one an edge on which the angle evaluation fails
CavEdgeProtos ==
    { BEdge(<<0, 2>>, 90), BEdge(<<0, 2>>, -90),
      BEdge(<<2, 3>>, 90), BEdge(<<2, 3>>, 179),
      BEdge(<<0, 6>>, 90), BEdge(<<3, 5>>, -90), FailingBEdge(<<1, 2>>) }

\* the number of B-rep edges added
MaxCavExtra == 2

\* a 50 x 50 x 50 block with one 20 x 20 x 10 blind pocket in its top: the
\* top (0), the bottom (1), the four sides (2-5), the four pocket walls (6-9)
\* and the pocket floor (10); the block's twelve edges and the four
\* wall-top edges are convex, the wall-wall and wall-floor edges concave
PocketWalls == { 6, 7, 8, 9 }

PocketFloor == { 10 }

BlockPocketPart ==
    Part(<< PlaneFace(2100, <<0, 0, 100>>, <<Line, Line, Line, Line>>, 0),
            PlaneFace(2500, <<0, 0, 100>>, <<Line, Line, Line, Line>>, 0),
            PlaneFace(2500, <<100, 0, 0>>, <<Line, Line, Line, Line>>, 0),
            PlaneFace(2500, <<0, 100, 0>>, <<Line, Line, Line, Line>>, 0),
            PlaneFace(2500, <<100, 0, 0>>, <<Line, Line, Line, Line>>, 0),
            PlaneFace(2500, <<0, 100, 0>>, <<Line, Line, Line, Line>>, 0),
            PlaneFace(200, <<100, 0, 0>>, <<Line, Line, Line, Line>>, 0),
            PlaneFace(200, <<0, 100, 0>>, <<Line, Line, Line, Line>>, 0),
            PlaneFace(200, <<100, 0, 0>>, <<Line, Line, Line, Line>>, 0),
            PlaneFace(200, <<0, 100, 0>>, <<Line, Line, Line, Line>>, 0),
            PlaneFace(400, <<0, 0, 100>>, <<Line, Line, Line, Line>>, 0) >>,
         << BEdge(<<0, 2>>, -90), BEdge(<<0, 3>>, -90),
            BEdge(<<0, 4>>, -90), BEdge(<<0, 5>>, -90),
            BEdge(<<1, 2>>, -90), BEdge(<<1, 3>>, -90),
            BEdge(<<1, 4>>, -90), BEdge(<<1, 5>>, -90),
            BEdge(<<2, 3>>, -90), BEdge(<<3, 4>>, -90),
            BEdge(<<4, 5>>, -90), BEdge(<<2, 5>>, -90),
            BEdge(<<6, 7>>, 90), BEdge(<<7, 8>>, 90),
            BEdge(<<8, 9>>, 90), BEdge(<<6, 9>>, 90),
            BEdge(<<6, 10>>, 90), BEdge(<<7, 10>>, 90),
            BEdge(<<8, 10>>, 90), BEdge(<<9, 10>>, 90),
            BEdge(<<0, 6>>, -90), BEdge(<<0, 7>>, -90),
            BEdge(<<0, 8>>, -90), BEdge(<<0, 9>>, -90) >>)

BlockPocketShape == ShapeOf(BlockPocketPart)

\* the three pockets in a solid of thirteen faces
ThirteenFaceShape == ShapeOf(JoinParts(PocketsPart, Pad(1)))

\* a shallow groove: face 0 meets faces 1 and 2 at 3 degrees each, and faces
\* 1 and 2 meet their rims 3 and 4 at a convex edge
ShallowGrooveShape ==
    ShapeOf(JoinParts(Part(<< PadFace, PadFace, PadFace, PadFace, PadFace >>,
                           << BEdge(<<0, 1>>, 3), BEdge(<<0, 2>>, 3),
                              BEdge(<<1, 3>>, -90), BEdge(<<2, 4>>, -90) >>),
                      Pad(PadCount)))

CavShapes ==
    { ShapeOf(JoinParts(Part(PocketsPart.faces, PocketsPart.edges \o extra),
                        Pad(PadCount)))
      : extra \in SeqsUpTo(CavEdgeProtos, MaxCavExtra) }
    \cup { BlockPocketShape, ThirteenFaceShape, ShallowGrooveShape }

\* the volume caps tried: one below every estimate, one between the
\* estimates of three and of four faces, and the engine's
CavVolumes == {10, 20, CavityMaxVolume}

InitCav ==
    /\ aag = EmptyAAG
    /\ shape = NoShape
    /\ pc = "new"
    /\ IdleRec
    /\ IdleAux

\* the solid is loaded and its AAG built
CavBuild ==
    /\ pc = "new"
    /\ \E sh \in CavShapes :
          /\ shape' = sh
          /\ aag' = Build(EmptyAAG, sh)
    /\ pc' = "built"
    /\ UNCHANGED recVars
    /\ UNCHANGED auxVars

\* CavityRecognizer(aag).Recognize(max_volume)
CavRecognize ==
    /\ pc = "built"
    /\ \E max_volume \in CavVolumes :
          LET r == CavityRecognize(aag, max_volume, counters["cavity"])
          IN /\ features' = r.fs
             /\ counters' = [counters EXCEPT !["cavity"] = r.c]
    /\ pc' = "done"
    /\ UNCHANGED <<aag, shape, modules, fillet_faces, log, sessions>>
    /\ UNCHANGED auxVars

NextCav == CavBuild \/ CavRecognize

SpecCav == InitCav /\ [][NextCav]_vars

----------------------------------------------------------------------------
(* Claims about recognition (SpecRec, SpecCav) *)

OfType(t) == {k \in 1..Len(features) : features[k].type = t}

FaceSet(k) == Range(features[k].face_ids)

\* C1: in a run with both the fillet and the hole recognizer selected, no
\* face id is in the face_ids of both a hole feature and a fillet feature;
\* this covers the seed face of a hole and every face added to it by coaxial
\* grouping.
C1_NoFaceInHoleAndFillet ==
    ( Selected(modules, "recognize_fillets") /\ Selected(modules, "recognize_holes") ) =>
        \A i \in OfType("hole") : \A j \in OfType("fillet") :
            FaceSet(i) \cap FaceSet(j) = {}

\* C2: for every emitted cavity with face set S, every AAG adjacency whose
\* two faces both lie in S is smooth (|theta| > 177) or concave (theta > 0 and
\* not smooth); no convex adjacency joins two faces of one cavity.
C2_CavityInternalEdgesNotConvex ==
    \A i \in OfType("cavity") : \A k \in 1..Len(aag.edges_) :
        LET e == aag.edges_[k]
            smooth == Abs(e.dihedral_angle) > 177
        IN ( e.face1_id \in FaceSet(i) /\ e.face2_id \in FaceSet(i) ) =>
               ( smooth \/ (e.dihedral_angle > 0 /\ ~smooth) )

\* C3: the face sets of any two cavities emitted in one run are disjoint,
\* whatever the seed order and whether or not earlier candidate sets were
\* rejected by validation.
C3_CavitiesDisjoint ==
    \A i, j \in OfType("cavity") : i # j => FaceSet(i) \cap FaceSet(j) = {}

\* two cavities came out of a run whose first candidate set, grown from a
\* seed below both, was rejected
C3_Witness ==
    /\ pc = "done"
    /\ Cardinality(OfType("cavity")) = 2
    /\ \E s \in 0..(GetFaceCount(aag) - 1) :
          /\ IsCavitySeed(aag, s)
          /\ \A i \in OfType("cavity") : \A f \in FaceSet(i) : s < f

\* the counter value n as the id of feature f shows it, padded or not
FourDigits(n) ==
    LET D(d) == Digit[d + 1]
    IN D(n \div 1000) \o D((n \div 100) % 10) \o D((n \div 10) % 10) \o D(n % 10)

CarriesCounter(f, n) ==
    f.id \in {f.type \o "_" \o FourDigits(n), f.type \o "_" \o IntToString(n)}

IdNumber(f) == CHOOSE n \in 0..counters[f.type] : CarriesCounter(f, n)

\* C4: every per-type id counter is reset at the start of each analysis
\* session (each new Engine, each recognize_features run): the first feature
\* of each type emitted in a session carries counter value 0, however many
\* sessions ran before in the process.
C4_CountersResetPerSession ==
    \A k \in 1..Len(features) :
        ( \A i \in 1..(k - 1) : features[i].type # features[k].type ) =>
            CarriesCounter(features[k], 0)

\* the face a feature was seeded at: the face of a fillet or chamfer, the
\* first face of a hole, the least seed candidate of a thin wall or cavity
SeedFace(k) ==
    LET f == features[k]
        Least(S) == CHOOSE x \in S : \A y \in S : x <= y
    IN CASE f.type = "thin_wall" ->
              Least({s \in FaceSet(k) : IsThinWallSeedCandidate(aag, s)})
         [] f.type = "cavity" ->
              Least({s \in FaceSet(k) : IsCavitySeed(aag, s)})
         [] OTHER -> f.face_ids[1]

\* C5: within each feature type, counter values are handed out in ascending
\* order of seed face id: of two features of one type seeded at faces a < b,
\* the one seeded at a has the smaller id number and stands earlier in the
\* feature list; for fillets across cylindrical and toroidal faces together.
C5_IdsAscendWithSeedFace ==
    \A i, j \in 1..Len(features) :
        ( features[i].type = features[j].type /\ SeedFace(i) < SeedFace(j) ) =>
            ( i < j /\ IdNumber(features[i]) < IdNumber(features[j]) )

\* C6: every feature id (fillet, chamfer, thin_wall, hole, cavity) is the
\* feature's type, an underscore and the per-type counter value written as
\* exactly four zero-padded decimal digits, for counter values below 10000.
C6_IdIsTypeAndFourDigits ==
    \A k \in 1..Len(features) :
        \E n \in 0..counters[features[k].type] :
            features[k].id = features[k].type \o "_" \o FourDigits(n)

\* the place of a recognizer, by the name it logs, and of a feature type in
\* the order fillets, chamfers, thin walls, holes, shafts, cavities
OrderOf(name) ==
    CASE name \in {"fillet"} -> 1
      [] name \in {"chamfer"} -> 2
      [] name \in {"thin wall", "thin_wall"} -> 3
      [] name \in {"hole"} -> 4
      [] name \in {"shaft"} -> 5
      [] OTHER -> 6

ModuleOf(name) ==
    CASE name = "fillet" -> "recognize_fillets"
      [] name = "chamfer" -> "recognize_chamfers"
      [] name = "thin wall" -> "recognize_thin_walls"
      [] name = "hole" -> "recognize_holes"
      [] name = "shaft" -> "recognize_shafts"
      [] OTHER -> "recognize_cavities"

\* C7: in every recognize_features run, whatever modules are selected, the
\* selected recognizers execute in the order fillets, chamfers, thin walls,
\* holes, shafts, cavities: the recognizers that ran so far ran in that order
\* and were selected, at the end every selected one has run, the features
\* stand in the order fillet, chamfer, thin_wall, hole, cavity, and once the
\* hole recognizer is due or has run, a selected fillet recognizer has run and
\* the set F holds exactly the faces of the fillet features.
C7_FixedRecognizerOrder ==
    /\ \A i, j \in 1..Len(log) : i < j => OrderOf(log[i]) < OrderOf(log[j])
    /\ \A i \in 1..Len(log) : Selected(modules, ModuleOf(log[i]))
    /\ pc = "done" =>
          \A name \in {"fillet", "chamfer", "thin wall", "hole", "shaft", "cavity"} :
              Selected(modules, ModuleOf(name)) => name \in Range(log)
    /\ \A i, j \in 1..Len(features) :
          i < j => OrderOf(features[i].type) <= OrderOf(features[j].type)
    /\ ( pc = "holes" \/ "hole" \in Range(log) ) =>
          /\ Selected(modules, "recognize_fillets") => "fillet" \in Range(log)
          /\ fillet_faces = UNION {FaceSet(k) : k \in OfType("fillet")}

\* a run of all six recognizers has ended with features of all five types
C7_Witness ==
    /\ pc = "done"
    /\ Len(log) = 6
    /\ \A t \in {"fillet", "chamfer", "thin_wall", "hole", "cavity"} : OfType(t) # {}
    /\ fillet_faces # {}

----------------------------------------------------------------------------
(* main: the argument loop *)

RECURSIVE Concat(_)
Concat(chars) == IF chars = <<>> THEN "" ELSE Head(chars) \o Concat(Tail(chars))

\* an argument: its text and its characters; a run of letters is kept as
\* one piece
Opt(word) == [text |-> "--" \o word, chars |-> <<"-", "-", word>>]
Val(chars) == [text |-> Concat(chars), chars |-> chars]

DecimalDigits == {"0", "1", "2", "3", "4", "5", "6", "7", "8", "9"}

\* the number of decimal digits of chars from position i on
RECURSIVE DigitsFrom(_, _)
DigitsFrom(chars, i) ==
    IF i <= Len(chars) /\ chars[i] \in DecimalDigits
    THEN 1 + DigitsFrom(chars, i + 1) ELSE 0

\* std::stod: an optional sign, digits, an optional point and digits; the
\* longest such prefix is converted, and without any digit
\* std::invalid_argument is thrown (ok = FALSE)
Stod(chars) ==
    LET sign == IF chars # <<>> /\ chars[1] \in {"+", "-"} THEN 1 ELSE 0
        int_digits == DigitsFrom(chars, sign + 1)
        point == sign + int_digits + 1
        frac_digits == IF point <= Len(chars) /\ chars[point] = "."
                       THEN DigitsFrom(chars, point + 1) ELSE 0
        used == IF frac_digits > 0 THEN point + frac_digits
                ELSE IF int_digits > 0 /\ point <= Len(chars) /\ chars[point] = "."
                     THEN point
                ELSE sign + int_digits
    IN [ok |-> int_digits + frac_digits > 0, text |-> Concat(SubSeq(chars, 1, used))]

\* std::stoi: an optional sign and digits
Stoi(chars) ==
    LET sign == IF chars # <<>> /\ chars[1] \in {"+", "-"} THEN 1 ELSE 0
        int_digits == DigitsFrom(chars, sign + 1)
    IN [ok |-> int_digits > 0, text |-> Concat(SubSeq(chars, 1, sign + int_digits))]

\* std::string::find(',') and rfind(','): a position from 1, or 0 for npos
Find(chars, c) ==
    IF \E k \in 1..Len(chars) : chars[k] = c
    THEN CHOOSE k \in 1..Len(chars) : chars[k] = c /\ \A l \in 1..(k - 1) : chars[l] # c
    ELSE 0

RFind(chars, c) ==
    IF \E k \in 1..Len(chars) : chars[k] = c
    THEN CHOOSE k \in 1..Len(chars) :
             chars[k] = c /\ \A l \in (k + 1)..Len(chars) : chars[l] # c
    ELSE 0

\* the option variables as main declares them
DefaultOpts ==
    [ input_file |-> "", output_dir |-> "", modules |-> "all", mesh_quality |-> "0.35",
      units |-> "mm", thin_wall_threshold |-> "5.0", analyze_thickness |-> FALSE,
      thickness_max_distance |-> "50.0", enable_thickness_heatmap |-> FALSE,
      heatmap_quality |-> "0.05", enable_sdf |-> FALSE, sdf_resolution |-> "100",
      adaptive_sdf |-> FALSE, narrow_band_width |-> "10.0",
      analyze_dfm_geometry |-> FALSE, draft_direction |-> <<"0.0", "0.0", "1.0">> ]

\* the variable an option with a value is stored in
VarOf(arg) ==
    CASE arg = "--input" -> "input_file"
      [] arg = "--outdir" -> "output_dir"
      [] arg = "--modules" -> "modules"
      [] arg = "--units" -> "units"
      [] arg = "--mesh-quality" -> "mesh_quality"
      [] arg = "--thin-wall-threshold" -> "thin_wall_threshold"
      [] arg = "--analyze-thickness" -> "thickness_max_distance"
      [] arg = "--heatmap-quality" -> "heatmap_quality"
      [] arg = "--narrow-band-width" -> "narrow_band_width"
      [] arg = "--sdf-resolution" -> "sdf_resolution"
      [] arg = "--enable-thickness-heatmap" -> "enable_thickness_heatmap"
      [] arg = "--enable-sdf" -> "enable_sdf"
      [] arg = "--adaptive-sdf" -> "adaptive_sdf"
      [] arg = "--analyze-dfm-geometry" -> "analyze_dfm_geometry"
      [] OTHER -> "draft_direction"

StringOptions == {"--input", "--outdir", "--modules", "--units"}
StodOptions == {"--mesh-quality", "--thin-wall-threshold", "--analyze-thickness",
                "--heatmap-quality", "--narrow-band-width"}
FlagOptions == {"--enable-thickness-heatmap", "--enable-sdf", "--adaptive-sdf",
                "--analyze-dfm-geometry"}

\* what one pass of the argument loop does: r.next is the new i, or r.exit
\* the status main ends with (134: terminate after an exception that nothing
\* catches, the loop standing before the try block)
ParseOne(o, args, i) ==
    LET arg == args[i].text
        has_value == i + 1 <= Len(args)
        value == args[i + 1]
        Go(o2, n) == [opts |-> o2, next |-> n, exit |-> -1]
        Exit(code) == [opts |-> o, next |-> i, exit |-> code]
    IN IF arg \in {"--help", "-h", "--version", "--list-modules"} THEN Exit(0)
       ELSE IF arg \in StringOptions /\ has_value
       THEN Go([o EXCEPT ![VarOf(arg)] = value.text], i + 2)
       ELSE IF arg \in StodOptions /\ has_value
       THEN IF Stod(value.chars).ok
            THEN Go([o EXCEPT ![VarOf(arg)] = Stod(value.chars).text,
                              !.analyze_thickness = @ \/ arg = "--analyze-thickness"],
                    i + 2)
            ELSE Exit(134)
       ELSE IF arg = "--sdf-resolution" /\ has_value
       THEN IF Stoi(value.chars).ok
            THEN Go([o EXCEPT !.sdf_resolution = Stoi(value.chars).text], i + 2)
            ELSE Exit(134)
       ELSE IF arg \in FlagOptions
       THEN Go([o EXCEPT ![VarOf(arg)] = TRUE], i + 1)
       ELSE IF arg = "--draft-direction" /\ has_value
       THEN LET dir_str == value.chars
                pos1 == Find(dir_str, ",")
                pos2 == RFind(dir_str, ",")
                x == Stod(SubSeq(dir_str, 1, pos1 - 1))
                y == Stod(SubSeq(dir_str, pos1 + 1, pos2 - 1))
                z == Stod(SubSeq(dir_str, pos2 + 1, Len(dir_str)))
            IN IF pos1 # 0 /\ pos2 # 0 /\ pos1 # pos2
               THEN IF x.ok /\ y.ok /\ z.ok
                    THEN Go([o EXCEPT !.draft_direction = <<x.text, y.text, z.text>>],
                            i + 2)
                    ELSE Exit(134)
               ELSE Exit(1)
       ELSE Exit(1)

\* the files that exist, and the directories create_directories cannot make
FilesPresent == {"part.step"}
DirsRefused == {"part.step/out"}

\* the arguments tried
CliTokens ==
    { Opt("help"), Opt("input"), Opt("outdir"), Opt("mesh-quality"),
      Opt("sdf-resolution"), Opt("draft-direction"), Opt("enable-sdf"),
      Opt("bogus"),
      Val(<<"part", ".", "step">>), Val(<<"gone", ".", "step">>), Val(<<"out">>),
      Val(<<"0", ".", "5">>), Val(<<"abc">>),
      Val(<<"0", ",", "0", ",", "1">>), Val(<<"0", ",", "1">>),
      Val(<<"x", ",", "0", ",", "1">>) }

\* how a command line may end: with nothing more, or with the two required options
CliTails ==
    { <<>>,
      << Opt("input"), Val(<<"part", ".", "step">>), Opt("outdir"), Val(<<"out">>) >>,
      << Opt("input"), Val(<<"part", ".", "step">>),
         Opt("outdir"), Val(<<"part", ".", "step", "/", "out">>) >> }

\* the number of arguments before the tail
MaxArgs == 2

CliArgvs == { body \o tail : body \in SeqsUpTo(CliTokens, MaxArgs), tail \in CliTails }

EngineIdle ==
    /\ aag = EmptyAAG
    /\ shape = NoShape
    /\ pc = "new"
    /\ IdleRec
    /\ threshold_ = 0
    /\ IdleSdf
    /\ IdleDfm

engineVars ==
    <<aag, shape, features, counters, pc, modules, fillet_faces, log, sessions, thinVars,
      sdfVars, dfmVars>>

\* everything but the variables of the SDF generator
engineNoSdf ==
    <<aag, shape, features, counters, pc, modules, fillet_faces, log, sessions, thinVars,
      cliVars, dfmVars>>

InitCli ==
    /\ argv \in CliArgvs
    /\ argi = 1
    /\ opts = DefaultOpts
    /\ mainpc = "parse"
    /\ exit_code = -1
    /\ trace = <<>>
    /\ EngineIdle

\* one pass of the argument loop
ParseArg ==
    /\ mainpc = "parse"
    /\ argi <= Len(argv)
    /\ LET r == ParseOne(opts, argv, argi)
       IN IF r.exit = -1
          THEN /\ opts' = r.opts
               /\ argi' = r.next
               /\ UNCHANGED <<mainpc, exit_code>>
          ELSE /\ mainpc' = "exited"
               /\ exit_code' = r.exit
               /\ UNCHANGED <<opts, argi>>
    /\ UNCHANGED <<argv, trace, engineVars>>

\* after the loop: the required arguments, the input file, the output
\* directory (create_directories throws outside the try block)
Validate ==
    /\ mainpc = "parse"
    /\ argi > Len(argv)
    /\ IF opts.input_file = "" \/ opts.output_dir = ""
       THEN mainpc' = "exited" /\ exit_code' = 1
       ELSE IF opts.input_file \notin FilesPresent
       THEN mainpc' = "exited" /\ exit_code' = 1
       ELSE IF opts.output_dir \in DirsRefused
       THEN mainpc' = "exited" /\ exit_code' = 134
       ELSE mainpc' = "pipeline" /\ UNCHANGED exit_code
    /\ UNCHANGED <<argv, argi, opts, trace, engineVars>>

NextCli == ParseArg \/ Validate

SpecCli == InitCli /\ [][NextCli]_vars

----------------------------------------------------------------------------
(* Claims about the command line (SpecCli) *)

ValueOptions == StringOptions \cup StodOptions \cup {"--sdf-resolution", "--draft-direction"}

InfoOptions == {"--help", "-h", "--version", "--list-modules"}

\* the positions of args at which an option is expected, reading from i
RECURSIVE OptionPositions(_, _)
OptionPositions(args, i) ==
    IF i > Len(args) THEN {}
    ELSE {i} \cup OptionPositions(args,
                     IF args[i].text \in ValueOptions /\ i < Len(args) THEN i + 2 ELSE i + 1)

IsNumber(chars) == Stod(chars).ok /\ Stod(chars).text = Concat(chars)

IsInteger(chars) == Stoi(chars).ok /\ Stoi(chars).text = Concat(chars)

\* x,y,z: three numbers with a comma after the first and after the second
IsDirection(chars) ==
    \E a, b \in 1..Len(chars) :
        /\ a < b /\ chars[a] = "," /\ chars[b] = ","
        /\ IsNumber(SubSeq(chars, 1, a - 1))
        /\ IsNumber(SubSeq(chars, a + 1, b - 1))
        /\ IsNumber(SubSeq(chars, b + 1, Len(chars)))

InvalidArgs(args) ==
    LET P == OptionPositions(args, 1)
    IN \/ \E i \in P :
             LET arg == args[i].text
             IN \/ arg \notin ValueOptions \cup FlagOptions \cup InfoOptions
                \/ arg \in ValueOptions /\ i = Len(args)
                \/ arg \in StodOptions /\ i < Len(args) /\ ~IsNumber(args[i + 1].chars)
                \/ arg = "--sdf-resolution" /\ i < Len(args)
                      /\ ~IsInteger(args[i + 1].chars)
                \/ arg = "--draft-direction" /\ i < Len(args)
                      /\ ~IsDirection(args[i + 1].chars)
       \/ ~ \E i \in P : args[i].text = "--input" /\ i < Len(args)
       \/ ~ \E i \in P : args[i].text = "--outdir" /\ i < Len(args)

\* C12: every invocation with invalid arguments (an unknown option, an
\* option without its value, no --input or no --outdir, a malformed
\* --draft-direction, a non-numeric value for a numeric option) ends with exit
\* code 1 and goes no further, provided no --help, --version or --list-modules
\* is among its options.
C12_InvalidArgsExitOne ==
    ( /\ InvalidArgs(argv)
      /\ \A i \in OptionPositions(argv, 1) : argv[i].text \notin InfoOptions ) =>
        /\ mainpc # "pipeline"
        /\ mainpc = "exited" => exit_code = 1

-----------------------------------------------------------------------------
(* main: the pipeline inside the try block.  Every engine and exporter call
   is a step whose result main sees as a bool; what main does with it is
   AfterCall. *)

\* the analyses run under --analyze-dfm-geometry, in call order; "gp_Dir" is
\* the construction of the draft direction between the first two
DfmSteps ==
    << "analyze_thickness_variance", "gp_Dir", "analyze_draft_angles",
       "detect_undercuts", "analyze_overhangs", "analyze_molding_accessibility",
       "analyze_cnc_accessibility", "analyze_pocket_depths" >>

\* calls whose failure main answers with "ERROR" and return 1
MandatorySteps ==
    << "load_step", "build_aag", "recognize_features", "export_mesh",
       "export_features", "export_aag", "export_topology_geometry",
       "export_metadata" >>

\* calls whose failure main answers with "WARNING ... (continuing)"
OptionalSteps ==
    { "analyze_thickness", "analyze_thickness_variance", "analyze_draft_angles",
      "detect_undercuts", "analyze_overhangs", "analyze_molding_accessibility",
      "analyze_cnc_accessibility", "analyze_pocket_depths",
      "export_analysis_mesh", "export_sdf" }

\* the steps of one run with options o, in program order, when nothing ends
\* the run early
Plan(o) ==
    << "load_step", "build_aag", "recognize_features" >>
    \o (IF o.analyze_thickness THEN << "analyze_thickness" >> ELSE << >>)
    \o (IF o.analyze_dfm_geometry THEN DfmSteps ELSE << >>)
    \o << "export_mesh" >>
    \o (IF o.enable_thickness_heatmap THEN << "export_analysis_mesh" >> ELSE << >>)
    \o (IF o.enable_sdf THEN << "export_sdf" >> ELSE << >>)
    \o (IF o.enable_sdf /\ o.analyze_dfm_geometry
        THEN << "stress_concentration" >> ELSE << >>)
    \o << "export_features", "export_aag", "export_topology_geometry",
          "export_metadata" >>

\* the step after step s in the run, "done" after the last
Following(o, s) ==
    LET p == Plan(o)
        k == CHOOSE i \in 1..Len(p) : p[i] = s
    IN IF k = Len(p) THEN "done" ELSE p[k + 1]

\* texts std::stod turns into 0.0
ZeroTexts == { "0", "0.0" }

\* gp_Dir(x, y, z) raises Standard_ConstructionError for a vector of no
\* length, unless the library was built without its checks
ZeroDirection(o) == \A k \in 1..3 : o.draft_direction[k] \in ZeroTexts

\* what a step can hand back to main, given that the steps before it went
\* through: recognize_features and analyze_thickness return true whenever
\* the shape is loaded and the graph built, and so does build_aag (AAG::Build
\* has no failing return); the construction of a zero direction either goes
\* through, or raises an exception the catch clause takes ("caught"), or one
\* it does not take ("uncaught")
Outcomes(o, s) ==
    CASE s \in { "build_aag", "recognize_features", "analyze_thickness",
                 "stress_concentration" } -> { "ok" }
      [] s = "gp_Dir" -> IF ZeroDirection(o) THEN { "ok", "caught", "uncaught" }
                                             ELSE { "ok" }
      [] OTHER -> { "ok", "fail" }

\* a variant of AfterCall in which a failed call always ends the run
AfterCallAllFatal(s, result) ==
    CASE result = "uncaught" -> [msg |-> "", exit |-> 134]
      [] result = "caught" -> [msg |-> "ERROR", exit |-> 1]
      [] result = "fail" -> [msg |-> "ERROR", exit |-> 1]
      [] s = "stress_concentration" -> [msg |-> "WARNING", exit |-> -1]
      [] OTHER -> [msg |-> "", exit |-> -1]

\* a variant of AfterCall in which a failed call never ends the run
AfterCallNoneFatal(s, result) ==
    CASE result = "uncaught" -> [msg |-> "", exit |-> 134]
      [] result = "caught" -> [msg |-> "ERROR", exit |-> 1]
      [] result = "fail" -> [msg |-> "WARNING", exit |-> -1]
      [] s = "stress_concentration" -> [msg |-> "WARNING", exit |-> -1]
      [] OTHER -> [msg |-> "", exit |-> -1]

\* what main does with the result of step s: the message on standard error
\* and the return value (-1: go on)
AfterCall(s, result) ==
    CASE result = "uncaught" -> [msg |-> "", exit |-> 134]
      [] result = "caught" -> [msg |-> "ERROR", exit |-> 1]
      [] result = "fail" /\ s \in OptionalSteps -> [msg |-> "WARNING", exit |-> -1]
      [] result = "fail" -> [msg |-> "ERROR", exit |-> 1]
      [] s = "stress_concentration" -> [msg |-> "WARNING", exit |-> -1]
      [] OTHER -> [msg |-> "", exit |-> -1]

\* one step of the pipeline
Call(s) ==
    /\ mainpc = s
    /\ \E result \in Outcomes(opts, s) :
          LET r == AfterCall(s, result)
          IN /\ trace' = Append(trace, [step |-> s, result |-> result, msg |-> r.msg])
             /\ IF r.exit # -1
                THEN mainpc' = "exited" /\ exit_code' = r.exit
                ELSE IF Following(opts, s) = "done"
                THEN mainpc' = "exited" /\ exit_code' = 0
                ELSE mainpc' = Following(opts, s) /\ UNCHANGED exit_code
    /\ UNCHANGED <<argv, argi, opts, engineVars>>

\* the command lines that reach the pipeline, by the options they leave set
MainDirections == { <<"0.0", "0.0", "1.0">>, <<"0", "0", "0">> }

MainOpts ==
    { [ DefaultOpts EXCEPT !.input_file = "part.step", !.output_dir = "out",
                           !.analyze_thickness = t, !.analyze_dfm_geometry = d,
                           !.enable_thickness_heatmap = h, !.enable_sdf = s,
                           !.draft_direction = dir ] :
        t \in BOOLEAN, d \in BOOLEAN, h \in BOOLEAN, s \in BOOLEAN,
        dir \in MainDirections }

InitMain ==
    /\ argv = <<>>
    /\ argi = 1
    /\ opts \in MainOpts
    /\ mainpc = "pipeline"
    /\ exit_code = -1
    /\ trace = <<>>
    /\ EngineIdle

\* entry of the try block: the engine is constructed and configured
EnterTry ==
    /\ mainpc = "pipeline"
    /\ mainpc' = "load_step"
    /\ UNCHANGED <<argv, argi, opts, exit_code, trace, engineVars>>

MainLoadStep == Call("load_step")
MainBuildAag == Call("build_aag")
MainRecognizeFeatures == Call("recognize_features")
MainAnalyzeThickness == Call("analyze_thickness")
MainAnalyzeThicknessVariance == Call("analyze_thickness_variance")
MainDraftDirection == Call("gp_Dir")
MainAnalyzeDraftAngles == Call("analyze_draft_angles")
MainDetectUndercuts == Call("detect_undercuts")
MainAnalyzeOverhangs == Call("analyze_overhangs")
MainAnalyzeMoldingAccessibility == Call("analyze_molding_accessibility")
MainAnalyzeCncAccessibility == Call("analyze_cnc_accessibility")
MainAnalyzePocketDepths == Call("analyze_pocket_depths")
MainExportMesh == Call("export_mesh")
MainExportAnalysisMesh == Call("export_analysis_mesh")
MainExportSdf == Call("export_sdf")
MainStressConcentration == Call("stress_concentration")
MainExportFeatures == Call("export_features")
MainExportAag == Call("export_aag")
MainExportTopologyGeometry == Call("export_topology_geometry")
MainExportMetadata == Call("export_metadata")

NextMain ==
    \/ EnterTry
    \/ MainLoadStep
    \/ MainBuildAag
    \/ MainRecognizeFeatures
    \/ MainAnalyzeThickness
    \/ MainAnalyzeThicknessVariance
    \/ MainDraftDirection
    \/ MainAnalyzeDraftAngles
    \/ MainDetectUndercuts
    \/ MainAnalyzeOverhangs
    \/ MainAnalyzeMoldingAccessibility
    \/ MainAnalyzeCncAccessibility
    \/ MainAnalyzePocketDepths
    \/ MainExportMesh
    \/ MainExportAnalysisMesh
    \/ MainExportSdf
    \/ MainStressConcentration
    \/ MainExportFeatures
    \/ MainExportAag
    \/ MainExportTopologyGeometry
    \/ MainExportMetadata

SpecMain == InitMain /\ [][NextMain]_vars

-----------------------------------------------------------------------------
(* Claims about the pipeline (SpecMain) *)

StepsOf(tr) == [k \in 1..Len(tr) |-> tr[k].step]

IsPrefix(s, t) == Len(s) <= Len(t) /\ \A k \in 1..Len(s) : s[k] = t[k]

\* the results the steps of the run gave, "ok" for a step not run
ResultsOf(tr) ==
    [s \in { Plan(opts)[k] : k \in 1..Len(Plan(opts)) } |->
        IF \E k \in 1..Len(tr) : tr[k].step = s
        THEN tr[CHOOSE k \in 1..Len(tr) : tr[k].step = s].result
        ELSE "ok"]

\* the run main makes from step s on when the steps give the results res
RECURSIVE Replay(_, _, _)
Replay(o, res, s) ==
    LET r == AfterCall(s, res[s])
    IN IF r.exit # -1 THEN [steps |-> << s >>, exit |-> r.exit]
       ELSE IF Following(o, s) = "done" THEN [steps |-> << s >>, exit |-> 0]
       ELSE LET rest == Replay(o, res, Following(o, s))
            IN [steps |-> << s >> \o rest.steps, exit |-> rest.exit]

\* C13: when an optional analysis reports failure, main logs a warning, runs
\* every later step in the same order, and ends with the exit code the run
\* has when that analysis succeeds and every other step gives the same result
C13_OptionalFailureOnlyWarns ==
    \A k \in 1..Len(trace) :
        (trace[k].step \in OptionalSteps /\ trace[k].result = "fail") =>
            /\ trace[k].msg = "WARNING"
            /\ IsPrefix(StepsOf(trace), Plan(opts))
            /\ mainpc = "exited" =>
                  LET same == Replay(opts, [ResultsOf(trace) EXCEPT ![trace[k].step] = "ok"],
                                     "load_step")
                  IN /\ Len(trace) > k
                     /\ same.steps = StepsOf(trace)
                     /\ same.exit = exit_code

\* a finished run with exit code 0 in which an optional analysis failed
C13_Witness ==
    /\ mainpc = "exited"
    /\ exit_code = 0
    /\ \E k \in 1..Len(trace) :
          /\ trace[k].step = "analyze_cnc_accessibility"
          /\ trace[k].result = "fail"
    /\ \E k \in 1..Len(trace) :
          /\ trace[k].step = "export_sdf"
          /\ trace[k].result = "fail"

\* the mandatory steps among the steps of a run, in the order they ran
RECURSIVE MandatoryRun(_)
MandatoryRun(tr) ==
    IF tr = << >> THEN << >>
    ELSE LET rest == MandatoryRun(Tail(tr))
         IN IF \E k \in 1..Len(MandatorySteps) : MandatorySteps[k] = Head(tr).step
            THEN << Head(tr) >> \o rest ELSE rest

-----------------------------------------------------------------------------
(* ThinWallRecognizerV2 alone: one recognizer on the graph of one solid *)

\* three walls in a row, each measured with its own thickness (in units)
WallsPart(t0, t1, t2) ==
    Part(<< PlaneFace(100, <<0, 0, 100>>, <<Line, Line, Line, Line>>, t0),
            PlaneFace(100, <<100, 0, 0>>, <<Line, Line, Line, Line>>, t1),
            PlaneFace(100, <<0, 100, 0>>, <<Line, Line, Line, Line>>, t2) >>,
         << BEdge(<<0, 1>>, -90), BEdge(<<1, 2>>, -90) >>)

\* thicknesses the rays report, in units: none, 0.875, 1, 1.75, 2, 3, 5 mm
ThinSamples == { 0, 7, 8, 14, 16, 24, 40 }

\* a flat plate of 100 x 100 x 2 mm: the two large faces (0, 1) and the four
\* sides (2..5), all twelve adjacencies convex at -90; normals are the
\* planes' own normals, t_large and t_side what the rays along the region's
\* dominant normal report from a large face and from a side (in units)
PlatePart(normals, t_large, t_side) ==
    Part([i \in 1..6 |->
             PlaneFace(IF i <= 2 THEN 10000 ELSE 200, normals[i],
                       << Line, Line, Line, Line >>,
                       IF i <= 2 THEN t_large ELSE t_side)],
         << BEdge(<< 0, 2 >>, -90), BEdge(<< 0, 3 >>, -90), BEdge(<< 0, 4 >>, -90),
            BEdge(<< 0, 5 >>, -90), BEdge(<< 1, 2 >>, -90), BEdge(<< 1, 3 >>, -90),
            BEdge(<< 1, 4 >>, -90), BEdge(<< 1, 5 >>, -90), BEdge(<< 2, 4 >>, -90),
            BEdge(<< 4, 3 >>, -90), BEdge(<< 3, 5 >>, -90), BEdge(<< 5, 2 >>, -90) >>)

\* the plate as the kernel may describe it: the planes' normals all outward
\* (they cancel, no ray is cast); all along the positive axes (the dominant
\* normal is the diagonal: 3.5 mm from a large face, 1.75 mm from a side);
\* the sides' normals cancelling (the dominant normal is Z: 2 mm from a large
\* face, the 1 mm to the rim or nothing from a side)
PlateParts ==
    { PlatePart(<< << 0, 0, 100 >>, << 0, 0, -100 >>, << 100, 0, 0 >>, << -100, 0, 0 >>,
                   << 0, 100, 0 >>, << 0, -100, 0 >> >>, 16, 0),
      PlatePart(<< << 0, 0, 100 >>, << 0, 0, 100 >>, << 100, 0, 0 >>, << 100, 0, 0 >>,
                   << 0, 100, 0 >>, << 0, 100, 0 >> >>, 28, 14),
      PlatePart(<< << 0, 0, 100 >>, << 0, 0, 100 >>, << 100, 0, 0 >>, << -100, 0, 0 >>,
                   << 0, 100, 0 >>, << 0, -100, 0 >> >>, 16, 8),
      PlatePart(<< << 0, 0, 100 >>, << 0, 0, 100 >>, << 100, 0, 0 >>, << -100, 0, 0 >>,
                   << 0, 100, 0 >>, << 0, -100, 0 >> >>, 16, 0) }

PlateShapes == { ShapeOf(p) : p \in PlateParts }

ThinShapes ==
    { ShapeOf(WallsPart(t0, t1, t2)) : t0, t1, t2 \in ThinSamples } \cup PlateShapes

\* set_thin_wall_threshold: the thresholds of the plate's test, the engine's
\* default and main's default, in mm
ThinThresholds == { 1, 3, 5 }

InitThin ==
    /\ aag = EmptyAAG
    /\ shape = NoShape
    /\ pc = "new"
    /\ IdleRec
    /\ IdleAux

\* the solid is loaded and its AAG built
ThinBuild ==
    /\ pc = "new"
    /\ \E sh \in ThinShapes :
          /\ shape' = sh
          /\ aag' = Build(EmptyAAG, sh)
    /\ pc' = "built"
    /\ UNCHANGED recVars
    /\ UNCHANGED auxVars

\* ThinWallRecognizerV2(aag, shape).Recognize(threshold)
ThinRecognize ==
    /\ pc = "built"
    /\ \E threshold \in ThinThresholds :
          LET r == ThinWallRecognize(aag, threshold, counters["thin_wall"])
          IN /\ threshold_' = threshold
             /\ features' = r.fs
             /\ counters' = [counters EXCEPT !["thin_wall"] = r.c]
    /\ pc' = "done"
    /\ UNCHANGED <<aag, shape, modules, fillet_faces, log, sessions>>
    /\ UNCHANGED <<cliVars, sdfVars, dfmVars>>

NextThin == ThinBuild \/ ThinRecognize

SpecThin == InitThin /\ [][NextThin]_vars

\* C15: every thin-wall feature emitted for a threshold T has
\* min_thickness <= avg_thickness <= max_thickness <= 2 * T and
\* sqrt(variance) / avg_thickness <= 0.60
C15_ThinWallStatisticsOrdered ==
    \A k \in 1..Len(features) :
        features[k].source = "thin_wall_recognizer_v2" =>
            LET p == features[k].params
            IN /\ p.min_thickness <= p.avg_thickness
               /\ p.avg_thickness <= p.max_thickness
               /\ p.max_thickness <= 2 * threshold_ * Unit
               /\ p.variance >= 0
               /\ FDiv(FSqrt(p.variance), p.avg_thickness) <= VarianceLimit

\* C21: for the flat plate, thin-wall v2 with threshold 3 emits exactly one
\* feature, of subtype sheet, whose faces are exactly the two large faces;
\* with threshold 1 it emits none
C21_PlateIsOneSheetOfTwoFaces ==
    (pc = "done" /\ shape \in PlateShapes) =>
        /\ threshold_ = 3 =>
               /\ Len(features) = 1
               /\ features[1].subtype = "sheet"
               /\ Range(features[1].face_ids) = { 0, 1 }
        /\ threshold_ = 1 => features = << >>

-----------------------------------------------------------------------------
(* SDFGenerator::GenerateSDF: the dense voxel grid.  A voxel is what the
   kernel answers at its centre: whether the classifier says inside, and for
   each of the six directions +X, -X, +Y, -Y, +Z, -Z the ray parameters of
   the wall crossings in the order the intersector lists them (in mm; 0
   stands for a crossing nearer than 0.01). *)

Voxel(inside, hits) == [inside |-> inside, hits |-> hits]

\* thread_intersector.Perform(ray, 0.0, m) and the loop over its points
RECURSIVE ClosestParam(_, _, _)
ClosestParam(params, i, acc) ==
    IF i > Len(params) THEN acc
    ELSE IF 100 * params[i] > 1 /\ params[i] < acc.closest
         THEN ClosestParam(params, i + 1, [closest |-> params[i], found_hit |-> TRUE])
         ELSE ClosestParam(params, i + 1, acc)

\* the CPU branch for one ray: distance stays -1 when the intersector has
\* no point within [0, m]
CpuCastRay(params, m, found_hit) ==
    LET within == SelectSeq(params, LAMBDA p : p <= m)
    IN IF Len(within) > 0
       THEN LET r == ClosestParam(within, 1, [closest |-> m, found_hit |-> found_hit])
            IN [distance |-> r.closest, found_hit |-> r.found_hit]
       ELSE [distance |-> -1, found_hit |-> found_hit]

\* EmbreeRayTracer::CastRay: the nearest crossing with tnear = 0.01 and
\* tfar = max_distance, -1 without one
EmbreeCastRay(params, max_distance) ==
    LET seen == {params[i] : i \in {j \in 1..Len(params) :
                                       100 * params[j] >= 1 /\ params[j] <= max_distance}}
    IN IF seen = {} THEN -1
       ELSE CHOOSE d \in seen : \A e \in seen : d <= e

\* a variant of the early termination that stops when a wall is near
EarlyStopWhenNear(dir, min_distance, m) == dir >= 2 /\ 10 * min_distance < 8 * m

\* early termination: after three rays, min_distance > max_search_distance * 0.8
EarlyStop(dir, min_distance, m) == dir >= 2 /\ 10 * min_distance > 8 * m

\* the loop over the six directions; acc = [min_distance, found_hit]
RECURSIVE RayLoop(_, _, _, _, _)
RayLoop(hits, dir, m, embree_available, acc) ==
    IF dir >= 6 THEN acc
    ELSE LET cast == IF embree_available
                     THEN [distance |-> EmbreeCastRay(hits[dir + 1], m),
                           found_hit |-> acc.found_hit]
                     ELSE CpuCastRay(hits[dir + 1], m, acc.found_hit)
             nearer == cast.distance > 0 /\ cast.distance < acc.min_distance
             acc1 == [ min_distance |-> IF nearer THEN cast.distance ELSE acc.min_distance,
                       found_hit |-> cast.found_hit \/ nearer ]
         IN IF EarlyStop(dir, acc1.min_distance, m) THEN acc1
            ELSE RayLoop(hits, dir + 1, m, embree_available, acc1)

\* the body of the voxel loop: thickness = 2 * min_distance for an inside
\* voxel with a hit nearer than m; otherwise the voxel counts as invalid and
\* its entry keeps the -1 of resize
VoxelThickness(vox, m, embree_available) ==
    IF vox.inside
    THEN LET r == RayLoop(vox.hits, 0, m, embree_available,
                          [min_distance |-> m, found_hit |-> FALSE])
         IN IF r.found_hit /\ r.min_distance < m
            THEN [valid |-> TRUE, thickness |-> 2 * r.min_distance]
            ELSE [valid |-> FALSE, thickness |-> -1]
    ELSE [valid |-> FALSE, thickness |-> -1]

\* the SDF object before the parallel region
NewSdf(total_voxels) ==
    [ thickness |-> [i \in 1..total_voxels |-> -1],
      min_thickness |-> DBL_MAX, max_thickness |-> 0,
      valid_count |-> 0, invalid_count |-> 0 ]

\* the thread-local variables at the head of the parallel region
NewThread ==
    [ at |-> "loop", local_min_thickness |-> DBL_MAX, local_max_thickness |-> 0,
      local_valid_count |-> 0, local_invalid_count |-> 0 ]

\* the thread's locals after a voxel with result r
Account(th, r) ==
    IF r.valid
    THEN [th EXCEPT !.local_valid_count = @ + 1,
                    !.local_min_thickness = IF r.thickness < @ THEN r.thickness ELSE @,
                    !.local_max_thickness = IF r.thickness > @ THEN r.thickness ELSE @]
    ELSE [th EXCEPT !.local_invalid_count = @ + 1]

\* a variant of the merge that stores the thread's results over the shared ones
MergeLocalOverwrite(s, th) ==
    [s EXCEPT !.valid_count = th.local_valid_count,
              !.invalid_count = th.local_invalid_count,
              !.min_thickness = th.local_min_thickness,
              !.max_thickness = th.local_max_thickness]

\* the critical section that merges a thread's results
MergeLocal(s, th) ==
    [s EXCEPT !.valid_count = @ + th.local_valid_count,
              !.invalid_count = @ + th.local_invalid_count,
              !.min_thickness = IF th.local_min_thickness < @
                                THEN th.local_min_thickness ELSE @,
              !.max_thickness = IF th.local_max_thickness > @
                                THEN th.local_max_thickness ELSE @]

\* the largest team of threads
MaxThreads == 2

\* the values of max_search_distance asked for, in mm
SearchDistances == { 10, 20 }

\* entry of GenerateSDF up to the parallel region; a second call asks for a
\* larger distance on the same shape and grid
SdfStart ==
    /\ \/ sdfpc = "ready" /\ prev_sdf' = prev_sdf
       \/ /\ sdfpc = "returned"
          /\ prev_sdf = << >>
          /\ prev_sdf' = [sdf |-> sdf, max_search_distance |-> max_search_distance]
    /\ \E m \in SearchDistances, n \in 1..MaxThreads :
          /\ m > max_search_distance
          /\ max_search_distance' = m
          /\ threads' = [t \in 1..n |-> NewThread]
    /\ sdf' = NewSdf(Len(grid.voxels))
    /\ next_voxel' = 0
    /\ sdfpc' = "parallel"
    /\ UNCHANGED <<grid, boundary_region, engineNoSdf>>

\* thread t takes the next iteration of the collapsed loop and runs its body
SdfVoxel(t) ==
    /\ sdfpc = "parallel"
    /\ threads[t].at = "loop"
    /\ next_voxel < Len(grid.voxels)
    /\ LET idx == next_voxel
           r == VoxelThickness(grid.voxels[idx + 1], max_search_distance,
                               grid.embree_available)
       IN /\ sdf' = IF r.valid THEN [sdf EXCEPT !.thickness[idx + 1] = r.thickness]
                    ELSE sdf
          /\ threads' = [threads EXCEPT ![t] = Account(@, r)]
    /\ next_voxel' = next_voxel + 1
    /\ UNCHANGED <<grid, max_search_distance, prev_sdf, sdfpc, boundary_region,
                   engineNoSdf>>

\* thread t finds no iteration left and merges in the critical section
SdfMerge(t) ==
    /\ sdfpc = "parallel"
    /\ threads[t].at = "loop"
    /\ next_voxel = Len(grid.voxels)
    /\ sdf' = MergeLocal(sdf, threads[t])
    /\ threads' = [threads EXCEPT ![t].at = "merged"]
    /\ UNCHANGED <<grid, max_search_distance, next_voxel, prev_sdf, sdfpc,
                   boundary_region, engineNoSdf>>

\* the end of the parallel region: GenerateSDF returns sdf
SdfReturn ==
    /\ sdfpc = "parallel"
    /\ \A t \in 1..Len(threads) : threads[t].at = "merged"
    /\ sdfpc' = "returned"
    /\ UNCHANGED <<grid, sdf, max_search_distance, threads, next_voxel, prev_sdf,
                   boundary_region, engineNoSdf>>

NextSdf ==
    \/ SdfStart
    \/ \E t \in 1..Len(threads) : SdfVoxel(t)
    \/ \E t \in 1..Len(threads) : SdfMerge(t)
    \/ SdfReturn

\* the voxels of the grids: outside the solid; inside with a wall at 3 mm;
\* inside with walls at 9 mm and 17 mm only; inside with no wall in reach of
\* the first three rays
VoxelKinds ==
    { Voxel(FALSE, << << >>, << >>, << >>, << >>, << >>, << >> >>),
      Voxel(TRUE, << <<0, 3>>, << >>, << >>, << >>, << >>, << >> >>),
      Voxel(TRUE, << <<17>>, <<9>>, << >>, << >>, << >>, <<5>> >>),
      Voxel(TRUE, << <<25>>, << >>, << >>, <<3>>, << >>, << >> >>) }

\* voxels per grid
GridVoxels == 3

SdfGrids ==
    { [voxels |-> v, embree_available |-> FALSE] : v \in [1..GridVoxels -> VoxelKinds] }

SdfReady ==
    /\ sdf = << >>
    /\ max_search_distance = 0
    /\ threads = << >>
    /\ next_voxel = 0
    /\ prev_sdf = << >>
    /\ sdfpc = "ready"
    /\ boundary_region = {}

EngineOnly ==
    /\ aag = EmptyAAG
    /\ shape = NoShape
    /\ pc = "new"
    /\ IdleRec
    /\ threshold_ = 0
    /\ IdleDfm
    /\ argv = <<>> /\ argi = 1 /\ opts = <<>> /\ mainpc = "idle"
    /\ exit_code = -1 /\ trace = <<>>

InitSdf ==
    /\ grid \in SdfGrids
    /\ SdfReady
    /\ EngineOnly

SpecSdf == InitSdf /\ [][NextSdf]_vars

\* one voxel, every combination of what the six rays can meet
RayHits == { << >>, <<0, 3>>, <<9>>, <<17, 7>> }

RayGrids ==
    { [voxels |-> << Voxel(TRUE, h) >>, embree_available |-> e] :
        h \in [1..6 -> RayHits], e \in BOOLEAN }

InitSdfRay ==
    /\ grid \in RayGrids
    /\ SdfReady
    /\ EngineOnly

SpecSdfRay == InitSdfRay /\ [][NextSdf]_vars

-----------------------------------------------------------------------------
(* Claims about the dense SDF (SpecSdfRay, SpecSdf) *)

\* C16: when max_search_distance is raised from m1 to m2 > m1 on the same
\* shape and grid, every voxel with thickness >= 0 under m1 has thickness
\* >= 0 under m2 and a value not larger than under m1
C16_LargerSearchKeepsVoxels ==
    (sdfpc = "returned" /\ prev_sdf # << >>) =>
        \A i \in 1..Len(sdf.thickness) :
            prev_sdf.sdf.thickness[i] >= 0 =>
                /\ sdf.thickness[i] >= 0
                /\ sdf.thickness[i] <= prev_sdf.sdf.thickness[i]

\* a voxel whose first three rays met a wall only beyond 0.8 * m1, so that
\* the last three rays were cast under m2 alone and found a nearer wall
C16_Witness ==
    /\ sdfpc = "returned"
    /\ prev_sdf # << >>
    /\ prev_sdf.sdf.thickness[1] = 18
    /\ sdf.thickness[1] = 6

\* GenerateSDF run by one thread: the loop in index order, then the merge
RECURSIVE SequentialLoop(_, _, _, _)
SequentialLoop(g, m, idx, acc) ==
    IF idx >= Len(g.voxels) THEN acc
    ELSE LET r == VoxelThickness(g.voxels[idx + 1], m, g.embree_available)
         IN SequentialLoop(g, m, idx + 1,
                [ sdf |-> IF r.valid
                          THEN [acc.sdf EXCEPT !.thickness[idx + 1] = r.thickness]
                          ELSE acc.sdf,
                  th |-> Account(acc.th, r) ])

SequentialSdf(g, m) ==
    LET r == SequentialLoop(g, m, 0, [sdf |-> NewSdf(Len(g.voxels)), th |-> NewThread])
    IN MergeLocal(r.sdf, r.th)

\* C17: for every number of threads and every interleaving of the voxel loop
\* and of the merge sections, the thickness array, min_thickness,
\* max_thickness, valid_count and invalid_count GenerateSDF returns are those
\* of the run by one thread
C17_ParallelEqualsSequential ==
    sdfpc = "returned" => sdf = SequentialSdf(grid, max_search_distance)

\* a run returned by two threads that both found valid voxels, with
\* different minima, the thread with the larger one merging last
C17_Witness ==
    /\ sdfpc = "returned"
    /\ Len(threads) = 2
    /\ threads[1].local_valid_count >= 1
    /\ threads[2].local_valid_count >= 1
    /\ threads[1].local_invalid_count >= 1
    /\ threads[1].local_min_thickness # threads[2].local_min_thickness
    /\ sdf.min_thickness < sdf.max_thickness

-----------------------------------------------------------------------------
(* SDFGenerator::GenerateAdaptiveSDF: a coarse first pass marks the coarse
   voxels near the surface in a std::vector<bool>, a second pass computes
   the thickness of the fine voxels whose coarse voxel is marked.  The
   elements of a vector<bool> are bits of one machine word: assigning one is
   a load of the word followed by a store of the word with the bit set, and
   the first pass runs these from several threads without synchronisation. *)

coarse_factor == 4

\* the fine grid: nx, ny, nz
FineDims == << 8, 4, 4 >>

CoarseDims == [k \in 1..3 |-> FineDims[k] \div coarse_factor]

TotalVoxels == FineDims[1] * FineDims[2] * FineDims[3]

TotalCoarse == CoarseDims[1] * CoarseDims[2] * CoarseDims[3]

\* the coarse index of the fine voxel idx = iz * nx * ny + iy * nx + ix
CoarseIndex(idx) ==
    LET nx == FineDims[1]
        ny == FineDims[2]
        ix == idx % nx
        iy == (idx \div nx) % ny
        iz == idx \div (nx * ny)
        Clamp(c, n) == IF c >= n THEN n - 1 ELSE c
        coarse_ix == Clamp(ix \div coarse_factor, CoarseDims[1])
        coarse_iy == Clamp(iy \div coarse_factor, CoarseDims[2])
        coarse_iz == Clamp(iz \div coarse_factor, CoarseDims[3])
    IN coarse_iz * CoarseDims[1] * CoarseDims[2] + coarse_iy * CoarseDims[1] + coarse_ix

\* the iterations a static schedule gives thread t of n (both from 1)
StaticChunk(t, n, total) ==
    LET q == total \div n
        r == total % n
        first == (t - 1) * q + (IF t - 1 < r THEN t - 1 ELSE r)
        count == q + (IF t - 1 < r THEN 1 ELSE 0)
    IN [k \in 1..count |-> first + k - 1]

\* distCalc.Value() <= narrow_band_width at the centre of coarse voxel idx
\* (a distance of -1: the distance calculation gave no solution)
NearSurface(g, idx, narrow_band_width) ==
    g.coarse[idx + 1] >= 0 /\ g.coarse[idx + 1] <= narrow_band_width

\* what the kernel answers at fine voxel idx
FineVoxel(g, idx) == g.fine[CoarseIndex(idx) + 1]

\* main's default --narrow-band-width, in mm
NarrowBandWidths == { 10 }

NewCoarseThread(t, n) ==
    [ at |-> "coarse", todo |-> StaticChunk(t, n, TotalCoarse), word |-> {} ]

\* entry of GenerateAdaptiveSDF up to the first parallel loop
AdaptStart ==
    /\ sdfpc = "ready"
    /\ \E w \in NarrowBandWidths, n \in 1..MaxThreads :
          /\ max_search_distance' = w
          /\ threads' = [t \in 1..n |-> NewCoarseThread(t, n)]
    /\ sdf' = NewSdf(TotalVoxels)
    /\ boundary_region' = {}
    /\ sdfpc' = "coarse"
    /\ UNCHANGED <<grid, next_voxel, prev_sdf, engineNoSdf>>

\* first pass, thread t: the distance test of its next coarse voxel and,
\* for a voxel in the band, the load of the word of boundary_region
AdaptCoarse(t) ==
    /\ sdfpc = "coarse"
    /\ threads[t].at = "coarse"
    /\ threads[t].todo # << >>
    /\ IF NearSurface(grid, Head(threads[t].todo), max_search_distance)
       THEN threads' = [threads EXCEPT ![t].at = "store", ![t].word = boundary_region]
       ELSE threads' = [threads EXCEPT ![t].todo = Tail(@)]
    /\ UNCHANGED <<grid, sdf, max_search_distance, next_voxel, prev_sdf, sdfpc,
                   boundary_region, engineNoSdf>>

\* first pass, thread t: the store of the word with the voxel's bit set
AdaptStore(t) ==
    /\ sdfpc = "coarse"
    /\ threads[t].at = "store"
    /\ boundary_region' = threads[t].word \cup { Head(threads[t].todo) }
    /\ threads' = [threads EXCEPT ![t].at = "coarse", ![t].todo = Tail(@)]
    /\ UNCHANGED <<grid, sdf, max_search_distance, next_voxel, prev_sdf, sdfpc,
                   engineNoSdf>>

\* the end of the first loop and the start of the second parallel region
AdaptSecondPass ==
    /\ sdfpc = "coarse"
    /\ \A t \in 1..Len(threads) : threads[t].at = "coarse" /\ threads[t].todo = << >>
    /\ threads' = [t \in 1..Len(threads) |-> NewThread]
    /\ next_voxel' = 0
    /\ sdfpc' = "fine"
    /\ UNCHANGED <<grid, sdf, max_search_distance, prev_sdf, boundary_region,
                   engineNoSdf>>

\* second pass, thread t: the next iteration of the collapsed loop
AdaptVoxel(t) ==
    /\ sdfpc = "fine"
    /\ threads[t].at = "loop"
    /\ next_voxel < TotalVoxels
    /\ LET idx == next_voxel
           r == VoxelThickness(FineVoxel(grid, idx), max_search_distance,
                               grid.embree_available)
       IN IF CoarseIndex(idx) \notin boundary_region
          THEN UNCHANGED <<sdf, threads>>
          ELSE /\ sdf' = IF r.valid THEN [sdf EXCEPT !.thickness[idx + 1] = r.thickness]
                         ELSE sdf
               /\ threads' = [threads EXCEPT ![t] = Account(@, r)]
    /\ next_voxel' = next_voxel + 1
    /\ UNCHANGED <<grid, max_search_distance, prev_sdf, sdfpc, boundary_region,
                   engineNoSdf>>

\* second pass, thread t: the critical section that merges its results
AdaptMerge(t) ==
    /\ sdfpc = "fine"
    /\ threads[t].at = "loop"
    /\ next_voxel = TotalVoxels
    /\ sdf' = MergeLocal(sdf, threads[t])
    /\ threads' = [threads EXCEPT ![t].at = "merged"]
    /\ UNCHANGED <<grid, max_search_distance, next_voxel, prev_sdf, sdfpc,
                   boundary_region, engineNoSdf>>

AdaptReturn ==
    /\ sdfpc = "fine"
    /\ \A t \in 1..Len(threads) : threads[t].at = "merged"
    /\ sdfpc' = "returned"
    /\ UNCHANGED <<grid, sdf, max_search_distance, threads, next_voxel, prev_sdf,
                   boundary_region, engineNoSdf>>

NextAdapt ==
    \/ AdaptStart
    \/ \E t \in 1..Len(threads) : AdaptCoarse(t)
    \/ \E t \in 1..Len(threads) : AdaptStore(t)
    \/ AdaptSecondPass
    \/ \E t \in 1..Len(threads) : AdaptVoxel(t)
    \/ \E t \in 1..Len(threads) : AdaptMerge(t)
    \/ AdaptReturn

\* distances from a coarse voxel's centre to the surface, in mm
CoarseDistances == { -1, 2, 50 }

\* the fine voxels of a coarse voxel
FineKinds ==
    { Voxel(FALSE, << << >>, << >>, << >>, << >>, << >>, << >> >>),
      Voxel(TRUE, << <<0, 3>>, << >>, << >>, << >>, << >>, << >> >>) }

AdaptGrids ==
    { [coarse |-> c, fine |-> f, embree_available |-> FALSE] :
        c \in [1..TotalCoarse -> CoarseDistances], f \in [1..TotalCoarse -> FineKinds] }

InitAdapt ==
    /\ grid \in AdaptGrids
    /\ SdfReady
    /\ EngineOnly

SpecAdapt == InitAdapt /\ [][NextAdapt]_vars

-----------------------------------------------------------------------------
(* Claims about the adaptive SDF (SpecAdapt) *)

\* the mask one thread writes
SequentialMask(g, narrow_band_width) ==
    { idx \in 0..(TotalCoarse - 1) : NearSurface(g, idx, narrow_band_width) }

\* the second pass run by one thread over the mask
RECURSIVE SequentialFineLoop(_, _, _, _, _)
SequentialFineLoop(g, w, mask, idx, acc) ==
    IF idx >= TotalVoxels THEN acc
    ELSE IF CoarseIndex(idx) \notin mask THEN SequentialFineLoop(g, w, mask, idx + 1, acc)
    ELSE LET r == VoxelThickness(FineVoxel(g, idx), w, g.embree_available)
         IN SequentialFineLoop(g, w, mask, idx + 1,
                [ sdf |-> IF r.valid
                          THEN [acc.sdf EXCEPT !.thickness[idx + 1] = r.thickness]
                          ELSE acc.sdf,
                  th |-> Account(acc.th, r) ])

SequentialAdaptiveSdf(g, w) ==
    LET r == SequentialFineLoop(g, w, SequentialMask(g, w), 0,
                                [sdf |-> NewSdf(TotalVoxels), th |-> NewThread])
    IN MergeLocal(r.sdf, r.th)

\* C18: for every number of threads and every interleaving, the coarse
\* boundary mask left by the first pass, and with it the thickness array and
\* the statistics GenerateAdaptiveSDF returns, are those of the run by one
\* thread
C18_AdaptiveEqualsSequential ==
    /\ sdfpc \in { "fine", "returned" } =>
          boundary_region = SequentialMask(grid, max_search_distance)
    /\ sdfpc = "returned" => sdf = SequentialAdaptiveSdf(grid, max_search_distance)

----------------------------------------------------------------------------
(* AccessibilityAnalyzer: CNC accessibility.  A face is what the kernel
   answers for it: its normal, and for each direction the distances at which
   the ray cast from its centroid against that direction crosses the part. *)

\* the six standard directions of AnalyzeCNCAccessibility, in its order
directions ==
    << [dir_name |-> "+X", dir |-> << 1, 0, 0 >>],
       [dir_name |-> "-X", dir |-> << -1, 0, 0 >>],
       [dir_name |-> "+Y", dir |-> << 0, 1, 0 >>],
       [dir_name |-> "-Y", dir |-> << 0, -1, 0 >>],
       [dir_name |-> "+Z", dir |-> << 0, 0, 1 >>],
       [dir_name |-> "-Z", dir |-> << 0, 0, -1 >>] >>

DirectionNames == { directions[k].dir_name : k \in 1..Len(directions) }

\* max_distance of the accessibility ray, mm
AccessMaxDistance == 1000

\* the sign of normal.Dot(direction)
Dot(a, b) == a[1] * b[1] + a[2] * b[2] + a[3] * b[3]

\* IsFaceAccessibleFromDirection: a face turned away is not accessible; with
\* Embree the face is accessible when the ray hits nothing, without it always
IsFaceAccessibleFromDirection(face, d, tracer) ==
    IF Dot(face.normal, d.dir) > 0 THEN FALSE
    ELSE IF tracer = "none" THEN TRUE
    ELSE LET hit_distance == IF tracer = "scene"
                             THEN EmbreeCastRay(face.crossings[d.dir_name], AccessMaxDistance)
                             ELSE -1
         IN hit_distance < 0

\* a variant of the count that counts every direction tested
CountEveryDirection(accessible, accessible_direction_count) ==
    accessible_direction_count + 1

\* if (accessible) accessible_direction_count++
CountDirection(accessible, accessible_direction_count) ==
    IF accessible THEN accessible_direction_count + 1 ELSE accessible_direction_count

\* AccessibilityResult as constructed
DefaultAccessibilityResult ==
    [ face_id |-> -1,
      is_accessible_molding |-> TRUE,
      is_accessible_cnc |-> TRUE,
      requires_side_action |-> FALSE,
      accessibility_score |-> Unit,
      accessible_from_direction |-> << >> ]

\* the loop over the directions for one face: the map and the count
RECURSIVE DirectionLoop(_, _, _, _)
DirectionLoop(face, tracer, k, acc) ==
    IF k > Len(directions) THEN acc
    ELSE LET accessible == IsFaceAccessibleFromDirection(face, directions[k], tracer)
         IN DirectionLoop(face, tracer, k + 1,
                [ map |-> acc.map @@ (directions[k].dir_name :> accessible),
                  count |-> CountDirection(accessible, acc.count) ])

\* the body of the loop over the faces, for face i (from 0)
CncResult(faces, tracer, i) ==
    LET tested == DirectionLoop(faces[i + 1], tracer, 1, [map |-> << >>, count |-> 0])
    IN [ DefaultAccessibilityResult EXCEPT
           !.face_id = i,
           !.accessible_from_direction = tested.map,
           !.is_accessible_cnc = tested.count > 0,
           !.accessibility_score = FDiv(tested.count * Unit, Len(directions) * Unit) ]

\* the constructor: BuildFaceIndex and, in a build with Embree, the scene
\* ("no_scene" when it could not be built)
AccessibilityAnalyzer(faces, tracer) ==
    /\ ray_tracer_ = "idle"
    /\ index_to_face_' = faces
    /\ ray_tracer_' = tracer
    /\ UNCHANGED <<results, draft_direction>>

\* AnalyzeCNCAccessibility: one result per face, keyed by the face's index
\* (entry i + 1 of the sequence is results[i])
AnalyzeCNCAccessibility ==
    /\ ray_tracer_ # "idle"
    /\ results' = [i \in 1..Len(index_to_face_) |->
                       CncResult(index_to_face_, ray_tracer_, i - 1)]
    /\ UNCHANGED <<index_to_face_, ray_tracer_, draft_direction>>

\* the faces of the parts analysed
MaxCncFaces == 2

CncNormals == { << 0, 0, 1 >>, << 0, 0, -1 >>, << 1, 0, 0 >>, << 1, 1, 0 >> }

\* nothing in the way; the floor of a slot along Y, with a wall beyond the
\* ray's reach below; a face enclosed on every side
CncCrossings ==
    { [n \in DirectionNames |-> << >>],
      [n \in DirectionNames |-> IF n \in {"+X", "-X"} THEN << 5 >>
                                ELSE IF n = "-Z" THEN << 2000 >> ELSE << >>],
      [n \in DirectionNames |-> << 5, 9 >>] }

CncFaces == [normal : CncNormals, crossings : CncCrossings]

CncParts == UNION { [1..n -> CncFaces] : n \in 0..MaxCncFaces }

RayTracers == { "none", "scene", "no_scene" }

notAccVars ==
    <<aag, shape, features, counters, pc, modules, fillet_faces, log, sessions,
      cliVars, thinVars, sdfVars, pocketVars, blendVars, progressVars>>

InitCnc == EngineOnly /\ IdleSdf

Construct ==
    /\ \E faces \in CncParts, tracer \in RayTracers : AccessibilityAnalyzer(faces, tracer)
    /\ UNCHANGED notAccVars

Analyze == AnalyzeCNCAccessibility /\ UNCHANGED notAccVars

NextCnc == Construct \/ Analyze

SpecCnc == InitCnc /\ [][NextCnc]_vars

\* the number of directions recorded as accessible in a result
RecordedAccessible(r) ==
    Cardinality({ n \in DOMAIN r.accessible_from_direction :
                    r.accessible_from_direction[n] })

\* C19: every CNC result records the six directions, and its
\* accessibility_score is the number of them recorded as accessible divided
\* by 6 (as a double), between 0 and 1
C19_ScoreIsAccessibleFraction ==
    \A i \in DOMAIN results :
        LET r == results[i]
        IN /\ DOMAIN r.accessible_from_direction = DirectionNames
           /\ r.accessibility_score = FDiv(RecordedAccessible(r) * Unit, 6 * Unit)
           /\ r.accessibility_score >= 0
           /\ r.accessibility_score <= Unit

\* a face reached from some of the six directions but not from all of them,
\* and another reached from none
C19_Witness ==
    /\ Len(results) = 2
    /\ RecordedAccessible(results[1]) = 3
    /\ results[1].accessibility_score = Unit \div 2
    /\ RecordedAccessible(results[2]) = 0
    /\ results[2].accessibility_score = 0

----------------------------------------------------------------------------
(* PocketDepthAnalyzer.  The analyzer reads the graph for the neighbours and
   the kernel for each face's bounding box and centroid (geometry.faces, by
   face id), normal and area (the shape's faces), and the part's bounding box
   (geometry.part).  Lengths are whole millimetres and every comparison of
   the code is evaluated exactly, cleared of its divisions and square roots. *)

\* std::set<int>::find(neighbor_id) == end() over GetNeighbors(face_id)
ExternalCount(g, cavity_faces, face_id) ==
    LET neighbors == GetNeighbors(g, face_id)
    IN Cardinality({k \in 1..Len(neighbors) : neighbors[k] \notin cavity_faces})

TotalCount(g, face_id) == Len(GetNeighbors(g, face_id))

\* FindOpeningFaces: the faces whose ratio of external neighbours is at
\* least 0.8 of the largest one; faces without neighbours are passed over
FindOpeningFaces(g, cavity_faces) ==
    LET linked == {f \in cavity_faces : TotalCount(g, f) # 0}
        ext(f) == ExternalCount(g, cavity_faces, f)
        tot(f) == TotalCount(g, f)
        \* max_ratio as a fraction, 0 when no face has a neighbour
        best == IF linked = {} THEN [ext |-> 0, tot |-> 1]
                ELSE LET f == CHOOSE a \in linked :
                                 \A b \in linked : ext(a) * tot(b) >= ext(b) * tot(a)
                     IN [ext |-> ext(f), tot |-> tot(f)]
    IN {f \in linked : 10 * ext(f) * best.tot >= 8 * best.ext * tot(f)}

\* the sum of the vectors v[f], f in S
VecSum(v, S) ==
    << Sum([f \in S |-> v[f][1]], S), Sum([f \in S |-> v[f][2]], S),
       Sum([f \in S |-> v[f][3]], S) >>

GetFaceCentroid(geom, face_id) == geom.faces[face_id + 1].centroid

GetFaceNormal(sh, face_id) == sh.faces[face_id + 1].sn

\* ComputeOpeningPlane: the centre is sum / n; the normal is the direction
\* of normal_sum, the Z axis when the normals cancel
ComputeOpeningPlane(sh, geom, opening_faces) ==
    LET sum == VecSum([f \in opening_faces |-> GetFaceCentroid(geom, f)], opening_faces)
        normal_sum == VecSum([f \in opening_faces |-> GetFaceNormal(sh, f)], opening_faces)
    IN [ sum |-> sum, n |-> Cardinality(opening_faces),
         normal |-> IF normal_sum = << 0, 0, 0 >> THEN << 0, 0, 1 >> ELSE normal_sum ]

\* opening_plane.Distance(centroid), times n * |normal|
ScaledDistance(plane, c) ==
    Abs(Dot(plane.normal, << plane.n * c[1] - plane.sum[1],
                             plane.n * c[2] - plane.sum[2],
                             plane.n * c[3] - plane.sum[3] >>))

RECURSIVE Gcd(_, _)
Gcd(a, b) == IF b = 0 THEN a ELSE Gcd(b, a % b)

\* ComputeMaxDepth: the largest distance of a cavity face's centroid from
\* the plane, as the fraction (in lowest terms) whose square root it is
ComputeMaxDepth(geom, cavity_faces, plane) ==
    LET ds == {ScaledDistance(plane, GetFaceCentroid(geom, f)) : f \in cavity_faces}
        d == CHOOSE x \in ds : \A y \in ds : x >= y
        num == d * d
        den == plane.n * plane.n * Dot(plane.normal, plane.normal)
        common == Gcd(num, den)
    IN [ sq_num |-> num \div common, sq_den |-> den \div common ]

\* GetBoundingBox: <<xmin, ymin, zmin, xmax, ymax, zmax>> of a set of faces
GetBoundingBox(geom, faces) ==
    LET lo(k) == CHOOSE x \in {geom.faces[f + 1].box[k] : f \in faces} :
                     \A y \in {geom.faces[f + 1].box[k] : f \in faces} : x <= y
        hi(k) == CHOOSE x \in {geom.faces[f + 1].box[k] : f \in faces} :
                     \A y \in {geom.faces[f + 1].box[k] : f \in faces} : x >= y
    IN << lo(1), lo(2), lo(3), hi(4), hi(5), hi(6) >>

\* EstimateOpeningDiameter, doubled: the sum of the two largest dimensions
EstimateOpeningDiameter(geom, opening_faces) ==
    IF opening_faces = {} THEN 0
    ELSE LET b == GetBoundingBox(geom, opening_faces)
             dx == b[4] - b[1]
             dy == b[5] - b[2]
             dz == b[6] - b[3]
         IN dx + dy + dz - Min3(dx, dy, dz)

\* a quotient of doubles above 0.8; dividing by zero gives infinity, or NaN
\* (above nothing) for 0 / 0
SpanAbove(c, p) == IF p = 0 THEN c > 0 ELSE 10 * c > 8 * p

\* IsThroughHole: the cavity's box spans more than 0.8 of the part's on an axis
IsThroughHole(geom, cavity_faces) ==
    LET c == GetBoundingBox(geom, cavity_faces)
        p == geom.part
    IN \E k \in 1..3 : SpanAbove(c[k + 3] - c[k], p[k + 3] - p[k])

\* depth / opening_diameter < q / 4, for a doubled diameter above 0.2
RatioBelow(depth, diameter2, q) ==
    depth.sq_num * 64 < q * q * diameter2 * diameter2 * depth.sq_den

\* depth / opening_diameter > q / 4, for a doubled diameter above 0.2
RatioAbove(depth, diameter2, q) ==
    depth.sq_num * 64 > q * q * diameter2 * diameter2 * depth.sq_den

\* ClassifyPocket
ClassifyPocket(depth, diameter2, is_through) ==
    IF is_through THEN "THROUGH_HOLE"
    ELSE IF diameter2 = 0 THEN "SHALLOW_RECESS"
    ELSE IF RatioBelow(depth, diameter2, 2) THEN "SHALLOW_RECESS"
    ELSE IF RatioBelow(depth, diameter2, 8) THEN "BLIND_POCKET"
    ELSE "DEEP_CAVITY"

\* EstimateVolume, doubled: total area times the smallest dimension
EstimateVolume(sh, geom, cavity_faces) ==
    LET b == GetBoundingBox(geom, cavity_faces)
    IN Sum([f \in cavity_faces |-> sh.faces[f + 1].area], cavity_faces)
         * Min3(b[4] - b[1], b[5] - b[2], b[6] - b[3])

\* PocketDepthResult as constructed (depth as the fraction under the root,
\* opening_diameter and volume doubled); the fields that are irrational
\* functions of these (aspect_ratio, accessibility_score) and the opening's
\* centroid and normal are not kept
DefaultPocketDepthResult ==
    [ pocket_id |-> -1,
      face_ids |-> {},
      depth |-> [sq_num |-> 0, sq_den |-> 1],
      opening_diameter |-> 0,
      volume |-> 0,
      type |-> "SHALLOW_RECESS",
      is_through_hole |-> FALSE,
      is_deep |-> FALSE,
      is_narrow |-> FALSE,
      opening_faces |-> {} ]

\* AnalyzeSinglePocket
AnalyzeSinglePocket(g, sh, geom, face_ids) ==
    LET result == [DefaultPocketDepthResult EXCEPT !.face_ids = face_ids]
        opening_faces == FindOpeningFaces(g, face_ids)
        opening_plane == ComputeOpeningPlane(sh, geom, opening_faces)
        depth == ComputeMaxDepth(geom, face_ids, opening_plane)
        diameter2 == EstimateOpeningDiameter(geom, opening_faces)
        is_through_hole == IsThroughHole(geom, face_ids)
    IN IF face_ids = {} THEN result
       ELSE IF opening_faces = {} THEN result
       ELSE [ result EXCEPT
                !.opening_faces = opening_faces,
                !.depth = depth,
                !.opening_diameter = diameter2,
                !.is_through_hole = is_through_hole,
                !.type = ClassifyPocket(depth, diameter2, is_through_hole),
                !.is_deep = diameter2 # 0 /\ RatioAbove(depth, diameter2, 8),
                !.is_narrow = diameter2 < 10,
                !.volume = EstimateVolume(sh, geom, face_ids) ]

\* what the kernel answers for a face
FaceGeometry(box, centroid) == [box |-> box, centroid |-> centroid]

\* a block of 10 mm with a slot cut into its top: the top (face 0), the two
\* walls of the slot (1, 3) and its floor (2), met in that order round the
\* slot
SlotPart ==
    Part(<< PlaneFace(80, << 0, 0, 100 >>, << Line, Line, Line, Line >>, 0),
            PlaneFace(40, << 100, 0, 0 >>, << Line, Line, Line, Line >>, 0),
            PlaneFace(20, << 0, 0, 100 >>, << Line, Line, Line, Line >>, 0),
            PlaneFace(40, << -100, 0, 0 >>, << Line, Line, Line, Line >>, 0) >>,
         << BEdge(<< 0, 1 >>, -90), BEdge(<< 1, 2 >>, 90),
            BEdge(<< 2, 3 >>, 90), BEdge(<< 3, 0 >>, -90) >>)

\* the slot is len long, 2 mm wide and reaches down to floor_z
SlotGeometry(len, floor_z) ==
    [ faces |-> << FaceGeometry(<< 0, 0, 10, 10, 10, 10 >>, << 5, 5, 10 >>),
                   FaceGeometry(<< 4, 0, floor_z, 4, len, 10 >>, << 4, len \div 2, (floor_z + 10) \div 2 >>),
                   FaceGeometry(<< 4, 0, floor_z, 6, len, floor_z >>,
                                << 5, len \div 2, floor_z >>),
                   FaceGeometry(<< 6, 0, floor_z, 6, len, 10 >>, << 6, len \div 2, (floor_z + 10) \div 2 >>) >>,
      part |-> << 0, 0, 0, 10, 10, 10 >> ]

\* lengths and floor heights of the slot
SlotLengths == { 2, 8, 10 }
SlotFloors == { 1, 4, 6, 9 }

\* a block 20 mm tall with a square bore of 2 mm sunk into its top: the
\* bore's rim (face 0), its bottom (1) and the block's top (2)
BorePart ==
    Part(<< PlaneFace(4, << 0, 0, 100 >>, << Line, Line, Line, Line >>, 0),
            PlaneFace(4, << 0, 0, 100 >>, << Line, Line, Line, Line >>, 0),
            PlaneFace(96, << 0, 0, 100 >>, << Line, Line, Line, Line >>, 0) >>,
         << BEdge(<< 0, 2 >>, -90), BEdge(<< 0, 1 >>, 90) >>)

\* the bore is depth deep
BoreGeometry(depth) ==
    [ faces |-> << FaceGeometry(<< 4, 4, 20, 6, 6, 20 >>, << 5, 5, 20 >>),
                   FaceGeometry(<< 4, 4, 20 - depth, 6, 6, 20 - depth >>,
                                << 5, 5, 20 - depth >>),
                   FaceGeometry(<< 0, 0, 20, 10, 10, 20 >>, << 5, 5, 20 >>) >>,
      part |-> << 0, 0, 0, 10, 10, 20 >> ]

BoreDepths == { 1, 3, 4, 9, 18 }

\* a curved sheet by itself: one face whose boundary edges have no second face
SheetPart ==
    Part(<< CylFace(20, Axis("y", 0), << Line, Arc(30), Line, Arc(30) >>, FALSE) >>,
         << BEdge(<< 0 >>, 0), BEdge(<< 0 >>, 0) >>)

SheetGeometry ==
    [ faces |-> << FaceGeometry(<< 0, 0, 0, 10, 10, 2 >>, << 5, 5, 1 >>) >>,
      part |-> << 0, 0, 0, 10, 10, 2 >> ]

\* the parts analysed, each with what the kernel answers for it
PocketParts ==
    { [part |-> SlotPart, geometry |-> SlotGeometry(len, z)] :
          len \in SlotLengths, z \in SlotFloors }
    \cup { [part |-> BorePart, geometry |-> BoreGeometry(depth)] : depth \in BoreDepths }
    \cup { [part |-> SheetPart, geometry |-> SheetGeometry] }

notPocketVars ==
    <<features, counters, modules, fillet_faces, log, sessions,
      cliVars, thinVars, sdfVars, accVars, blendVars, progressVars>>

InitPocket == EngineOnly /\ IdleSdf

\* the solid is loaded, its AAG built and the analyzer constructed on them
PocketConstruct ==
    /\ pc = "new"
    /\ \E p \in PocketParts :
          /\ shape' = ShapeOf(p.part)
          /\ aag' = Build(EmptyAAG, ShapeOf(p.part))
          /\ geometry' = p.geometry
    /\ pc' = "built"
    /\ UNCHANGED <<cavity_set, pocket>>
    /\ UNCHANGED notPocketVars

\* AnalyzeSinglePocket(face_ids) for a set of the part's faces
PocketAnalyze ==
    /\ pc \in {"built", "analysed"}
    /\ \E face_ids \in SUBSET (0..(GetFaceCount(aag) - 1)) :
          /\ cavity_set' = face_ids
          /\ pocket' = AnalyzeSinglePocket(aag, shape, geometry, face_ids)
    /\ pc' = "analysed"
    /\ UNCHANGED <<aag, shape, geometry>>
    /\ UNCHANGED notPocketVars

NextPocket == PocketConstruct \/ PocketAnalyze

SpecPocket == InitPocket /\ [][NextPocket]_vars

\* the box of the faces S spans more than 80% of the part's box on an axis
SpansMostOfPart(S) ==
    /\ S # {}
    /\ \E k \in 1..3 :
          LET c == GetBoundingBox(geometry, S)
          IN 10 * (c[k + 3] - c[k]) > 8 * (geometry.part[k + 3] - geometry.part[k])

\* C20: for every face set analysed, the empty one and one without opening
\* faces included, the result's type is THROUGH_HOLE exactly when the box of
\* the set spans more than 80% of the part's box along some axis
C20_ThroughHoleIffSpans ==
    pc = "analysed" =>
        (pocket.type = "THROUGH_HOLE" <=> SpansMostOfPart(cavity_set))

----------------------------------------------------------------------------
(* Claims about the cavity recognizer's seeds and validation (SpecCav) *)

\* C22: on the 50 x 50 x 50 block with one 20 x 20 x 10 blind pocket (eleven
\* faces), the cavity recognizer emits exactly one cavity feature, whose face
\* set is the four pocket walls plus the pocket floor.
C22_BlockPocketIsOneCavity ==
    (pc = "done" /\ shape = BlockPocketShape) =>
        /\ Cardinality(OfType("cavity")) = 1
        /\ \A i \in OfType("cavity") :
              FaceSet(i) = PocketWalls \cup PocketFloor

\* the candidate sets of a solid: what propagation collects from each seed
CandidateSets(g) ==
    { PropagateFromSeed(g, s).cavity_faces : s \in Range(CavFindSeedFaces(g)) }

\* C23: a candidate set S of a solid of N faces passes the size checks
\* exactly when |S| >= 3 and |S| < 0.25 * N, the product taken exactly
\* (4 * |S| < N); a set of 3 faces in a solid of 13 passes.
C23_SizeChecksUseExactQuarter ==
    pc = "done" =>
        \A S \in CandidateSets(aag) :
            SizeChecks(Cardinality(S), GetFaceCount(aag))
                <=> ( Cardinality(S) >= 3
                      /\ 4 * Cardinality(S) < GetFaceCount(aag) )

\* the AAG edges at face i, each one once
AdjacentEdges(g, i) ==
    { k \in 1..Len(g.edges_) :
        g.edges_[k].face1_id = i \/ g.edges_[k].face2_id = i }

\* concave as the claim has it: theta > 0 and not smooth
ConcaveEdges(g, i) ==
    { k \in AdjacentEdges(g, i) :
        /\ g.edges_[k].dihedral_angle > 0
        /\ ~(Abs(g.edges_[k].dihedral_angle) > 177) }

\* C24: a face is a cavity seed exactly when at least two of its adjacent
\* AAG edges are concave (theta > 0 and not smooth) and the concave edges are
\* at least 60% of its adjacent edges, each adjacent edge counted once; an
\* edge at 3 degrees counts as concave.
C24_SeedIffConcaveMajority ==
    pc = "done" =>
        \A i \in 0..(GetFaceCount(aag) - 1) :
            IsCavitySeed(aag, i)
                <=> ( Cardinality(ConcaveEdges(aag, i)) >= 2
                      /\ 10 * Cardinality(ConcaveEdges(aag, i))
                            >= 6 * Cardinality(AdjacentEdges(aag, i)) )

----------------------------------------------------------------------------
(* The fillet recognizer alone: one Recognize on one solid *)

\* the faces tried: a straight blend; a blend at the largest radius whose arc
\* is two degrees off; a cylinder band bounded by a full circle with a
\* quarter arc at a notch; a blend too large; a bore of semicircles; a
\* full cylinder; a swept blend; a blend revolved all the way round a boss
\* (two full circles and the quarter-circle seam); a plane with a rounded
\* corner
FilletFaceProtos ==
    { CylFace(2, Axis("z", 0), << Arc(90), Line, Arc(90), Line >>, FALSE),
      CylFace(FilletMaxRadius, Axis("z", 0), << Arc(92), Line >>, FALSE),
      CylFace(2, Axis("z", 0), << Arc(360), Arc(90), Line >>, FALSE),
      CylFace(12, Axis("z", 0), << Arc(90), Line >>, FALSE),
      CylFace(3, Axis("z", 0), << Arc(180), Line, Arc(180), Line >>, TRUE),
      CylFace(3, Axis("z", 0), << Arc(360), Line, Arc(360) >>, FALSE),
      TorusFace(1, 6, Axis("z", 0), << Arc(90), Arc(90) >>),
      TorusFace(1, 6, Axis("z", 0), << Arc(360), Arc(90), Arc(360) >>),
      PlaneFace(10, << 0, 0, 100 >>, << Line, Arc(90), Line >>, 0) }

\* the number of faces of the solid
MaxFilletFaces == 2

FilletShapes ==
    { MakeShape(fs, << >>) : fs \in SeqsUpTo(FilletFaceProtos, MaxFilletFaces) }

InitFillet ==
    /\ aag = EmptyAAG
    /\ shape = NoShape
    /\ pc = "new"
    /\ IdleRec
    /\ IdleAux

\* the solid is loaded and its AAG built
FilletBuild ==
    /\ pc = "new"
    /\ \E sh \in FilletShapes :
          /\ shape' = sh
          /\ aag' = Build(EmptyAAG, sh)
    /\ pc' = "built"
    /\ UNCHANGED recVars
    /\ UNCHANGED auxVars

\* FilletRecognizer(aag).Recognize(10.0)
FilletRun ==
    /\ pc = "built"
    /\ LET r == FilletRecognize(aag, FilletMaxRadius, counters["fillet"])
       IN /\ features' = r.fs
          /\ counters' = [counters EXCEPT !["fillet"] = r.c]
    /\ pc' = "done"
    /\ UNCHANGED <<aag, shape, modules, fillet_faces, log, sessions>>
    /\ UNCHANGED auxVars

NextFillet == FilletBuild \/ FilletRun

SpecFillet == InitFillet /\ [][NextFillet]_vars

\* face i of the solid is the face of an emitted fillet
EmittedAsFillet(i) ==
    \E k \in OfType("fillet") : features[k].face_ids = << i >>

\* the kernel's description of face i has an edge of the given kind
HasQuarterEdge(i) ==
    \E k \in 1..Len(shape.faces[i + 1].arcs) :
        LET c == shape.faces[i + 1].arcs[k]
        IN c.type = "Circle" /\ Abs(c.arc - 90) < 5

HasFullCircleEdge(i) ==
    \E k \in 1..Len(shape.faces[i + 1].arcs) :
        LET c == shape.faces[i + 1].arcs[k]
        IN c.type = "Circle" /\ c.arc = 360

\* C25: a face is emitted as a fillet exactly when it is cylindrical or
\* toroidal, its radius (cylinder radius or torus minor radius) is at most
\* the maximum (10), it has at least one quarter-circle edge, and it has no
\* full-circle edge.
C25_FilletIffQuarterAndNoFullCircle ==
    pc = "done" =>
        \A i \in 0..(Len(shape.faces) - 1) :
            EmittedAsFillet(i)
                <=> /\ shape.faces[i + 1].kind \in { "Cylinder", "Torus" }
                    /\ shape.faces[i + 1].radius <= FilletMaxRadius
                    /\ HasQuarterEdge(i)
                    /\ ~HasFullCircleEdge(i)

----------------------------------------------------------------------------
(* AccessibilityAnalyzer: molding accessibility.  Here a face also has its
   centroid (mm) and its area (mm^2); its normal is a unit vector along an
   axis, and so is the draft direction. *)

\* gp_Dir::Reversed of one of the six directions
ReversedDirection(d) ==
    CHOOSE r \in Range(directions) : r.dir = Reversed(d.dir)

\* ComputeShadowVolume: face i is in shadow when the centroid of another face
\* lies more than 0.5 ahead of its own along the direction and less than 10
\* beside it
ComputeShadowVolume(faces, direction) ==
    { i \in 0..(Len(faces) - 1) :
        \E j \in 0..(Len(faces) - 1) :
            /\ i # j
            /\ LET vec_ij == [k \in 1..3 |-> faces[j + 1].centroid[k]
                                              - faces[i + 1].centroid[k]]
                   proj == Dot(vec_ij, direction.dir)
               IN /\ 2 * proj > 1
                  /\ Dot(vec_ij, vec_ij) - proj * proj < 10 * 10 }

\* 90 - acos(dot) in degrees, for unit vectors along the axes
DraftAngle(normal, direction) ==
    LET dot == Dot(normal, direction.dir)
    IN IF dot > 0 THEN 90 ELSE IF dot = 0 THEN 0 ELSE -90

RequiresSideAction(face, draft_angle, accessible) ==
    IF draft_angle >= -2 THEN FALSE
    ELSE IF accessible THEN FALSE
    ELSE face.area > 10

\* the body of the loop over the faces, for face i (from 0)
MoldingResult(faces, tracer, draft, shadow_faces, i) ==
    LET face == faces[i + 1]
        draft_angle == DraftAngle(face.normal, draft)
        accessible == IsFaceAccessibleFromDirection(face, ReversedDirection(draft), tracer)
        is_in_shadow == i \in shadow_faces
        is_undercut == draft_angle < 0 \/ is_in_shadow \/ ~accessible
    IN [ DefaultAccessibilityResult EXCEPT
           !.face_id = i,
           !.is_accessible_molding = ~is_undercut,
           !.requires_side_action = RequiresSideAction(face, draft_angle, accessible),
           !.accessible_from_direction = ("draft" :> accessible) ]

\* AnalyzeMoldingAccessibility(draft): one result per face, keyed by the
\* face's index (entry i + 1 of the sequence is results[i])
AnalyzeMoldingAccessibility(draft) ==
    /\ ray_tracer_ # "idle"
    /\ LET shadow_faces == ComputeShadowVolume(index_to_face_, draft)
       IN results' = [i \in 1..Len(index_to_face_) |->
                         MoldingResult(index_to_face_, ray_tracer_, draft,
                                       shadow_faces, i - 1)]
    /\ draft_direction' = draft
    /\ UNCHANGED <<index_to_face_, ray_tracer_>>

\* what a ray from just off the face meets, by the direction it is cast
\* against: nothing but the named ones
Crossing(hits) ==
    [n \in DirectionNames |-> IF n \in DOMAIN hits THEN hits[n] ELSE << >>]

MoldFace(normal, centroid, area, hits) ==
    [normal |-> normal, centroid |-> centroid, area |-> area,
     crossings |-> Crossing(hits)]

\* the faces of a block 20 high with a T-slot in its top: the top and the
\* bottom of the block (a ray cast into the part meets the face it left,
\* 0.1 away; distances are rounded up to 1), a side, the slot's floor
\* between its walls, and the two faces under the overhang of the slot, a
\* large one and a small one, with the floor 3 below them
MoldFaces ==
    { MoldFace(<< 0, 0, 1 >>, << 0, 0, 20 >>, 400, "+Z" :> << 1 >>),
      MoldFace(<< 0, 0, -1 >>, << 0, 0, 0 >>, 400, "-Z" :> << 1 >>),
      MoldFace(<< 1, 0, 0 >>, << 30, 0, 10 >>, 400, "+X" :> << 1 >>),
      MoldFace(<< 0, 0, 1 >>, << 0, 0, 12 >>, 60,
               ("+Z" :> << 1 >>) @@ ("+X" :> << 5 >>) @@ ("-X" :> << 5 >>)),
      MoldFace(<< 0, 0, -1 >>, << 4, 0, 15 >>, 20,
               ("-Z" :> << 1 >>) @@ ("+Z" :> << 3 >>) @@ ("-X" :> << 2 >>)),
      MoldFace(<< 0, 0, -1 >>, << -4, 0, 15 >>, 5,
               ("-Z" :> << 1 >>) @@ ("+Z" :> << 3 >>) @@ ("+X" :> << 2 >>)) }

\* the number of faces of the parts analysed
MaxMoldFaces == 2

MoldParts == UNION { [1..n -> MoldFaces] : n \in 0..MaxMoldFaces }

InitMold == EngineOnly /\ IdleSdf

MoldConstruct ==
    /\ \E faces \in MoldParts, tracer \in RayTracers : AccessibilityAnalyzer(faces, tracer)
    /\ UNCHANGED notAccVars

MoldAnalyze ==
    /\ \E draft \in Range(directions) : AnalyzeMoldingAccessibility(draft)
    /\ UNCHANGED notAccVars

NextMold == MoldConstruct \/ MoldAnalyze

SpecMold == InitMold /\ [][NextMold]_vars

\* the ray of the claim: from c + 0.1 n in direction -d, i.e. cast against d,
\* hits nothing within the maximum ray length
RayAgainstDraftIsFree(face, d) ==
    \A k \in 1..Len(face.crossings[d.dir_name]) :
        face.crossings[d.dir_name][k] > AccessMaxDistance

\* C26: in a molding analysis with draft direction d, a face is recorded as
\* accessible (the "draft" entry of accessible_from_direction) exactly when
\* the ray from c + 0.1 n in direction -d hits nothing within the maximum
\* ray length.
C26_DraftEntryIffRayAgainstDraftFree ==
    \A i \in DOMAIN results :
        results[i].accessible_from_direction["draft"]
            <=> RayAgainstDraftIsFree(index_to_face_[i], draft_direction)

----------------------------------------------------------------------------
(* BlendRecognizer: chains of blend candidates.  The candidates, their
   vexity and their smooth edges are what the first three passes leave;
   BuildChains works on them. *)

VEXITY_UNCERTAIN == -1
VEXITY_CONCAVE == 0
VEXITY_CONVEX == 1

\* min_radius of a chain as constructed (1e10; any value above every radius)
ChainMinRadiusInit == 1000000

\* BlendCandidate after the passes before BuildChains
NewBlendCandidate(face_id, radius, vexity, smooth_edges) ==
    [ face_id |-> face_id, radius |-> radius, vexity |-> vexity,
      smooth_edges |-> smooth_edges, chain_id |-> -1 ]

\* BlendChain as constructed
NewBlendChain ==
    [ chain_id |-> -1, face_ids |-> << >>, vexity |-> VEXITY_UNCERTAIN,
      max_radius |-> 0, min_radius |-> ChainMinRadiusInit ]

MaxOf(a, b) == IF a >= b THEN a ELSE b
MinOf(a, b) == IF a <= b THEN a ELSE b

\* the faces listed at the smooth edges of a candidate, edge by edge in the
\* order of the edge ids
RECURSIVE AdjacentFaces(_, _)
AdjacentFaces(efm, edge_ids) ==
    IF edge_ids = << >> THEN << >>
    ELSE efm[Head(edge_ids)] \o AdjacentFaces(efm, Tail(edge_ids))

\* the two loops over the smooth edges and their faces; st = [queue, visited]
RECURSIVE BlendVisit(_, _, _, _, _)
BlendVisit(cands, current_id, adj, k, st) ==
    IF k > Len(adj) THEN st
    ELSE LET adj_face_id == adj[k]
         IN IF adj_face_id = current_id THEN BlendVisit(cands, current_id, adj, k + 1, st)
            ELSE IF adj_face_id \in st.visited
                 THEN BlendVisit(cands, current_id, adj, k + 1, st)
            ELSE IF adj_face_id \notin DOMAIN cands
                 THEN BlendVisit(cands, current_id, adj, k + 1, st)
            ELSE BlendVisit(cands, current_id, adj, k + 1,
                     [st EXCEPT !.visited = st.visited \cup {adj_face_id},
                                !.queue = Append(st.queue, adj_face_id)])

\* if (candidate.vexity != VEXITY_UNCERTAIN) chain.vexity = candidate.vexity
ChainVexity(chain_vexity, candidate_vexity) ==
    IF candidate_vexity # VEXITY_UNCERTAIN THEN candidate_vexity ELSE chain_vexity

\* the while loop of BuildChainFrom: the face taken is the last one queued;
\* st = [queue, visited, chain, cands]
RECURSIVE BlendTraverse(_, _, _)
BlendTraverse(efm, chain_id, st) ==
    IF st.queue = << >> THEN st
    ELSE LET current_id == st.queue[Len(st.queue)]
             candidate == st.cands[current_id]
             chain == [st.chain EXCEPT
                          !.face_ids = Append(st.chain.face_ids, current_id),
                          !.max_radius = MaxOf(st.chain.max_radius, candidate.radius),
                          !.min_radius = MinOf(st.chain.min_radius, candidate.radius),
                          !.vexity = ChainVexity(st.chain.vexity, candidate.vexity)]
             popped == [st EXCEPT
                          !.queue = SubSeq(st.queue, 1, Len(st.queue) - 1),
                          !.cands[current_id].chain_id = chain_id,
                          !.chain = chain]
             adj == AdjacentFaces(efm, SetToSeq(candidate.smooth_edges))
             seen == BlendVisit(st.cands, current_id, adj, 1,
                                [queue |-> popped.queue, visited |-> popped.visited])
         IN BlendTraverse(efm, chain_id,
                [popped EXCEPT !.queue = seen.queue, !.visited = seen.visited])

\* BuildChainFrom: the candidates with their chain ids, and the chain
BuildChainFrom(efm, cands, seed_face_id, chain_id) ==
    BlendTraverse(efm, chain_id,
        [ queue |-> << seed_face_id >>, visited |-> { seed_face_id },
          chain |-> [NewBlendChain EXCEPT !.chain_id = chain_id],
          cands |-> cands ])

\* the loop of BuildChains over the candidates in the order of their face ids
RECURSIVE BuildChainsLoop(_, _, _, _)
BuildChainsLoop(efm, ids, k, acc) ==
    IF k > Len(ids) THEN acc
    ELSE IF acc.cands[ids[k]].chain_id # -1 THEN BuildChainsLoop(efm, ids, k + 1, acc)
    ELSE LET b == BuildChainFrom(efm, acc.cands, ids[k], acc.next)
         IN BuildChainsLoop(efm, ids, k + 1,
                [ cands |-> b.cands, chains |-> Append(acc.chains, b.chain),
                  next |-> acc.next + 1 ])

\* the constructor and the passes before BuildChains
BlendClassify(efm, cands) ==
    /\ candidates_ = << >>
    /\ edge_face_map_' = efm
    /\ candidates_' = cands
    /\ UNCHANGED <<chains_, next_chain_id_>>

BuildChains ==
    /\ candidates_ # << >>
    /\ chains_ = << >>
    /\ LET r == BuildChainsLoop(edge_face_map_, SetToSeq(DOMAIN candidates_), 1,
                    [cands |-> candidates_, chains |-> chains_, next |-> next_chain_id_])
       IN /\ candidates_' = r.cands
          /\ chains_' = r.chains
          /\ next_chain_id_' = r.next
    /\ UNCHANGED edge_face_map_

\* the number of faces of the solids analysed, all of them blend candidates
MaxBlendFaces == 3

\* the number of smooth edges
MaxBlendEdges == 2

\* the smooth edges a solid of n blend faces may have, each with the two
\* faces the kernel lists for it
BlendEdgeMaps(n) ==
    SeqsUpTo({ << a, b >> : a \in 1..n, b \in 1..n } \ { << a, a >> : a \in 1..n },
             MaxBlendEdges)

Vexities == { VEXITY_UNCERTAIN, VEXITY_CONCAVE, VEXITY_CONVEX }

\* the candidates of a solid of n blend faces with the smooth edges efm: face
\* i has radius i
BlendCandidates(n, efm) ==
    { [i \in 1..n |->
          NewBlendCandidate(i, i, vex[i],
              { e \in 1..Len(efm) : i \in Range(efm[e]) })]
      : vex \in [1..n -> Vexities] }

notBlendVars ==
    <<aag, shape, features, counters, pc, modules, fillet_faces, log, sessions,
      cliVars, thinVars, sdfVars, accVars, pocketVars, progressVars>>

InitBlend == EngineOnly /\ IdleSdf

BlendPasses ==
    /\ \E n \in 1..MaxBlendFaces : \E efm \in BlendEdgeMaps(n) :
          \E cands \in BlendCandidates(n, efm) : BlendClassify(efm, cands)
    /\ UNCHANGED notBlendVars

BlendChains == BuildChains /\ UNCHANGED notBlendVars

NextBlend == BlendPasses \/ BlendChains

SpecBlend == InitBlend /\ [][NextBlend]_vars

\* the members of a chain whose vexity is definite, in traversal order
DefiniteMembers(chain) ==
    SelectSeq(chain.face_ids, LAMBDA f : candidates_[f].vexity # VEXITY_UNCERTAIN)

C28_DeepIffDeepCavity ==
    (pc = "analysed" /\ ~pocket.is_through_hole) =>
        (pocket.is_deep <=> pocket.type = "DEEP_CAVITY")

----------------------------------------------------------------------------
(* SDFGenerator::GenerateAdaptiveSDF on grids of several sizes, one thread:
   the reads of the coarse mask, the count of the voxels to process and the
   progress report of the second pass.  The first pass is taken by its
   result. *)

\* the fine grids: nx, ny, nz (resolution + 1 along the longest side, at
\* least 2 along the others)
FineDimChoices ==
    { << 2, 2, 2 >>, << 3, 2, 2 >>, << 4, 4, 4 >>, << 5, 4, 4 >>, << 8, 4, 4 >> }

CoarseDimsOf(dims) == [k \in 1..3 |-> dims[k] \div coarse_factor]

\* boundary_region.size()
MaskSize(dims) ==
    CoarseDimsOf(dims)[1] * CoarseDimsOf(dims)[2] * CoarseDimsOf(dims)[3]

VoxelCount(dims) == dims[1] * dims[2] * dims[3]

\* coarse_idx of the fine voxel idx = iz * nx * ny + iy * nx + ix
CoarseIndexOf(dims, idx) ==
    LET nx == dims[1]
        ny == dims[2]
        coarse == CoarseDimsOf(dims)
        ix == idx % nx
        iy == (idx \div nx) % ny
        iz == idx \div (nx * ny)
        Clamp(c, n) == IF c >= n THEN n - 1 ELSE c
        coarse_ix == Clamp(ix \div coarse_factor, coarse[1])
        coarse_iy == Clamp(iy \div coarse_factor, coarse[2])
        coarse_iz == Clamp(iz \div coarse_factor, coarse[3])
    IN coarse_iz * coarse[1] * coarse[2] + coarse_iy * coarse[1] + coarse_ix

\* what boundary_region[coarse_idx] may give: the bit stored, or for an
\* index outside the vector whatever lies there
MaskBits(dims, mask, coarse_idx) ==
    IF coarse_idx >= 0 /\ coarse_idx < MaskSize(dims)
    THEN { coarse_idx \in mask }
    ELSE BOOLEAN

\* the read of an index outside the vector may also end the process
MaskReadMayCrash(dims, coarse_idx) ==
    ~(coarse_idx >= 0 /\ coarse_idx < MaskSize(dims))

\* the grids: the distances the kernel gives at the coarse centres, and the
\* kind of the fine voxels (all alike)
FineGrids ==
    { [dims |-> d, coarse |-> c, fine |-> f, embree_available |-> FALSE] :
        d \in FineDimChoices, c \in UNION { [1..MaskSize(dd) -> CoarseDistances] :
                                            dd \in FineDimChoices },
        f \in FineKinds }

engineNoFine ==
    <<aag, shape, features, counters, pc, modules, fillet_faces, log, sessions,
      thinVars, cliVars, accVars, pocketVars, blendVars>>

InitFine ==
    /\ grid \in { g \in FineGrids : Len(g.coarse) = MaskSize(g.dims) }
    /\ SdfReady
    /\ EngineOnly

\* entry of GenerateAdaptiveSDF, the first pass and the set-up of the count
FineBegin ==
    /\ sdfpc = "ready"
    /\ \E w \in NarrowBandWidths :
          /\ max_search_distance' = w
          /\ boundary_region' = { idx \in 0..(MaskSize(grid.dims) - 1) :
                                    NearSurface(grid, idx, w) }
    /\ sdf' = NewSdf(VoxelCount(grid.dims))
    /\ next_voxel' = 0
    /\ voxels_to_process' = 0
    /\ voxels_processed' = 0
    /\ sdfpc' = "count"
    /\ UNCHANGED <<grid, threads, prev_sdf, coarse_read, engineNoFine>>

\* "Count voxels to process": one iteration of the loop
FineCount ==
    /\ sdfpc = "count"
    /\ next_voxel < VoxelCount(grid.dims)
    /\ LET coarse_idx == CoarseIndexOf(grid.dims, next_voxel)
       IN /\ coarse_read' = << coarse_idx >>
          /\ \/ /\ \E bit \in MaskBits(grid.dims, boundary_region, coarse_idx) :
                      voxels_to_process' = IF bit THEN voxels_to_process + 1
                                           ELSE voxels_to_process
                /\ next_voxel' = next_voxel + 1
                /\ UNCHANGED sdfpc
             \/ /\ MaskReadMayCrash(grid.dims, coarse_idx)
                /\ sdfpc' = "crashed"
                /\ UNCHANGED <<voxels_to_process, next_voxel>>
    /\ UNCHANGED <<grid, sdf, max_search_distance, threads, prev_sdf, boundary_region,
                   voxels_processed, engineNoFine>>

\* the end of the count and the start of the parallel region
FineCounted ==
    /\ sdfpc = "count"
    /\ next_voxel = VoxelCount(grid.dims)
    /\ threads' = << NewThread >>
    /\ next_voxel' = 0
    /\ sdfpc' = "fine"
    /\ UNCHANGED <<grid, sdf, max_search_distance, prev_sdf, boundary_region,
                   progressVars, engineNoFine>>

\* processed % (voxels_to_process / 20): a zero divisor stops the process
\* with an arithmetic fault or, on a machine whose division does not trap,
\* gives some remainder
ProgressOutcomes(to_process) ==
    IF to_process \div 20 = 0 THEN { "fault", "fine" } ELSE { "fine" }

\* second pass: one iteration of the collapsed loop
FineVoxelStep ==
    /\ sdfpc = "fine"
    /\ next_voxel < VoxelCount(grid.dims)
    /\ LET idx == next_voxel
           coarse_idx == CoarseIndexOf(grid.dims, idx)
           r == VoxelThickness(grid.fine, max_search_distance, grid.embree_available)
       IN /\ coarse_read' = << coarse_idx >>
          /\ \/ /\ FALSE \in MaskBits(grid.dims, boundary_region, coarse_idx)
                /\ next_voxel' = next_voxel + 1
                /\ UNCHANGED <<sdf, threads, voxels_processed, sdfpc>>
             \/ /\ TRUE \in MaskBits(grid.dims, boundary_region, coarse_idx)
                /\ sdf' = IF r.valid THEN [sdf EXCEPT !.thickness[idx + 1] = r.thickness]
                          ELSE sdf
                /\ threads' = [threads EXCEPT ![1] = Account(@, r)]
                /\ voxels_processed' = voxels_processed + 1
                /\ sdfpc' \in ProgressOutcomes(voxels_to_process)
                /\ next_voxel' = next_voxel + 1
             \/ /\ MaskReadMayCrash(grid.dims, coarse_idx)
                /\ sdfpc' = "crashed"
                /\ UNCHANGED <<sdf, threads, voxels_processed, next_voxel>>
    /\ UNCHANGED <<grid, max_search_distance, prev_sdf, boundary_region,
                   voxels_to_process, engineNoFine>>

\* the end of the loop: the critical section that merges, and the return
FineMerge ==
    /\ sdfpc = "fine"
    /\ next_voxel = VoxelCount(grid.dims)
    /\ sdf' = MergeLocal(sdf, threads[1])
    /\ threads' = [threads EXCEPT ![1].at = "merged"]
    /\ sdfpc' = "returned"
    /\ UNCHANGED <<grid, max_search_distance, next_voxel, prev_sdf, boundary_region,
                   progressVars, engineNoFine>>

NextFine ==
    \/ FineBegin
    \/ FineCount
    \/ FineCounted
    \/ FineVoxelStep
    \/ FineMerge

SpecFine == InitFine /\ [][NextFine]_vars

\* C29: the adaptive SDF runs to completion without an arithmetic fault for
\* every number of fine voxels to process, 1 to 19 included: the progress
\* report never takes a remainder or a quotient by zero.
C29_ProgressNeverDividesByZero ==
    /\ sdfpc # "fault"
    /\ voxels_processed > 0 => voxels_to_process \div 20 # 0

\* C30: every index used to read the coarse boundary mask lies inside the
\* mask, for all fine dimensions nx, ny, nz >= 1, a dimension below 4
\* (coarse dimension 0) included.
C30_MaskReadsInsideMask ==
    coarse_read # << >> =>
        ( coarse_read[1] >= 0 /\ coarse_read[1] < MaskSize(grid.dims) )

====
